---- MODULE Spec2Model ----
(***************************************************************************)
(* A model of SeroAI's evidence-fusion and decision engine                 *)
(* (src/core/fusion.py, src/app/service.py) and of the adaptive metric     *)
(* reliability store that tunes its weights (src/core/feedback_store.py).  *)
(*                                                                         *)
(* Arithmetic.  The program computes in binary floating point; the model   *)
(* computes in fixed point:                                                *)
(*   - raw scores, feedback counters and metric weights in hundredths      *)
(*     (0.85 is 85; a weight of 2.2 is 220);                               *)
(*   - probabilities in thousandths (0.95 is 950);                         *)
(*   - log-odds in thousandths (a bonus of 2.5 logits is 2500).            *)
(* ln(p/(1-p)) is tabulated at every thousandth (LogitHalf), log10 at      *)
(* every tenth of a decade (Log10Mantissa) with linear interpolation.      *)
(* Divisions round down and the sigmoid rounds up to the next thousandth,  *)
(* so that to_prob(to_logit(p)) = p and "p > 0.75" is decided exactly on   *)
(* the tabulated log-odds.                                                 *)
(***************************************************************************)
EXTENDS Integers, Sequences, FiniteSets, TLC

(***************************************************************************)
(* Generic helpers                                                         *)
(***************************************************************************)
Min(a, b) == IF a <= b THEN a ELSE b

Max(a, b) == IF a >= b THEN a ELSE b

\* np.clip(x, lo, hi) / max(lo, min(hi, x))
Clip(x, lo, hi) == Max(lo, Min(hi, x))

\* A key that is missing from a dict (dict.get then returns its default).
Absent == 0 - 1

\* A key that is present and holds None.
Null == 0 - 2

\* A mutant: a missing score read as 0 instead of its default.
Get_ZeroDefault(v, default) == IF v = Absent THEN 0 ELSE v

\* dict.get(key, default) for a numeric score
Get(v, default) == IF v = Absent THEN default ELSE v

(***************************************************************************)
(* Strings are sequences of one-character strings, so that upper(),        *)
(* lower(), strip() and the substring test `kw in text` are computed.      *)
(***************************************************************************)
LowerLetters ==
    <<"a", "b", "c", "d", "e", "f", "g", "h", "i", "j", "k", "l", "m",
      "n", "o", "p", "q", "r", "s", "t", "u", "v", "w", "x", "y", "z">>

UpperLetters ==
    <<"A", "B", "C", "D", "E", "F", "G", "H", "I", "J", "K", "L", "M",
      "N", "O", "P", "Q", "R", "S", "T", "U", "V", "W", "X", "Y", "Z">>

UpperChar(c) ==
    IF \E i \in 1..Len(LowerLetters) : LowerLetters[i] = c
    THEN UpperLetters[CHOOSE i \in 1..Len(LowerLetters) : LowerLetters[i] = c]
    ELSE c

LowerChar(c) ==
    IF \E i \in 1..Len(UpperLetters) : UpperLetters[i] = c
    THEN LowerLetters[CHOOSE i \in 1..Len(UpperLetters) : UpperLetters[i] = c]
    ELSE c

\* str.upper()
Upper(s) == [i \in 1..Len(s) |-> UpperChar(s[i])]

\* str.lower()
Lower(s) == [i \in 1..Len(s) |-> LowerChar(s[i])]

\* str.strip(): drop leading and trailing blanks
Strip(s) ==
    LET idx == {i \in 1..Len(s) : s[i] # " "}
    IN  IF idx = {} THEN <<>>
        ELSE SubSeq(s, CHOOSE i \in idx : \A j \in idx : i <= j,
                       CHOOSE i \in idx : \A j \in idx : i >= j)

\* `kw in s` for Python strings
Contains(kw, s) ==
    \E i \in 1..(Len(s) - Len(kw) + 1) : SubSeq(s, i, i + Len(kw) - 1) = kw

\* The value None where a string is expected.
NoneText == <<"None">>

\* `x or ''` followed by str(): None and '' both give ''
OrEmpty(t) == IF t = NoneText THEN <<>> ELSE t

(***************************************************************************)
(* Numeric tables                                                          *)
(***************************************************************************)
\* round(1000 * ln(p / (1 - p))) for p = 0.500, 0.501, ..., 1.000, with p
\* clipped to [1e-6, 1 - 1e-6] as to_logit does (the last entry).
LogitHalf ==
    <<
       0, 4, 8, 12, 16, 20, 24, 28, 32, 36, 40, 44,
       48, 52, 56, 60, 64, 68, 72, 76, 80, 84, 88, 92,
       96, 100, 104, 108, 112, 116, 120, 124, 128, 132, 136, 140,
       144, 148, 152, 156, 160, 164, 168, 172, 176, 180, 185, 189,
       193, 197, 201, 205, 209, 213, 217, 221, 225, 229, 233, 237,
       241, 245, 249, 253, 257, 261, 266, 270, 274, 278, 282, 286,
       290, 294, 298, 302, 306, 310, 315, 319, 323, 327, 331, 335,
       339, 343, 347, 352, 356, 360, 364, 368, 372, 376, 381, 385,
       389, 393, 397, 401, 405, 410, 414, 418, 422, 426, 431, 435,
       439, 443, 447, 452, 456, 460, 464, 468, 473, 477, 481, 485,
       490, 494, 498, 502, 507, 511, 515, 519, 524, 528, 532, 537,
       541, 545, 549, 554, 558, 562, 567, 571, 575, 580, 584, 588,
       593, 597, 602, 606, 610, 615, 619, 623, 628, 632, 637, 641,
       646, 650, 654, 659, 663, 668, 672, 677, 681, 686, 690, 695,
       699, 704, 708, 713, 717, 722, 726, 731, 735, 740, 745, 749,
       754, 758, 763, 768, 772, 777, 781, 786, 791, 795, 800, 805,
       809, 814, 819, 824, 828, 833, 838, 843, 847, 852, 857, 862,
       866, 871, 876, 881, 886, 891, 895, 900, 905, 910, 915, 920,
       925, 930, 935, 940, 944, 949, 954, 959, 964, 969, 974, 979,
       984, 990, 995, 1000, 1005, 1010, 1015, 1020, 1025, 1030, 1036, 1041,
       1046, 1051, 1056, 1062, 1067, 1072, 1077, 1083, 1088, 1093, 1099, 1104,
       1109, 1115, 1120, 1125, 1131, 1136, 1142, 1147, 1153, 1158, 1164, 1169,
       1175, 1180, 1186, 1191, 1197, 1203, 1208, 1214, 1220, 1225, 1231, 1237,
       1243, 1248, 1254, 1260, 1266, 1272, 1277, 1283, 1289, 1295, 1301, 1307,
       1313, 1319, 1325, 1331, 1337, 1343, 1349, 1355, 1361, 1368, 1374, 1380,
       1386, 1393, 1399, 1405, 1411, 1418, 1424, 1431, 1437, 1444, 1450, 1457,
       1463, 1470, 1476, 1483, 1489, 1496, 1503, 1510, 1516, 1523, 1530, 1537,
       1544, 1551, 1558, 1565, 1572, 1579, 1586, 1593, 1600, 1607, 1614, 1621,
       1629, 1636, 1643, 1651, 1658, 1666, 1673, 1681, 1688, 1696, 1704, 1711,
       1719, 1727, 1735, 1742, 1750, 1758, 1766, 1774, 1782, 1791, 1799, 1807,
       1815, 1824, 1832, 1840, 1849, 1857, 1866, 1875, 1883, 1892, 1901, 1910,
       1919, 1928, 1937, 1946, 1955, 1964, 1974, 1983, 1992, 2002, 2012, 2021,
       2031, 2041, 2051, 2060, 2070, 2081, 2091, 2101, 2111, 2122, 2132, 2143,
       2154, 2164, 2175, 2186, 2197, 2208, 2220, 2231, 2242, 2254, 2266, 2278,
       2289, 2301, 2314, 2326, 2338, 2351, 2363, 2376, 2389, 2402, 2415, 2429,
       2442, 2456, 2470, 2484, 2498, 2512, 2527, 2541, 2556, 2571, 2587, 2602,
       2618, 2634, 2650, 2666, 2683, 2700, 2717, 2734, 2752, 2769, 2788, 2806,
       2825, 2844, 2863, 2883, 2903, 2924, 2944, 2966, 2987, 3009, 3032, 3055,
       3079, 3103, 3127, 3152, 3178, 3204, 3231, 3259, 3288, 3317, 3347, 3378,
       3409, 3442, 3476, 3511, 3547, 3585, 3623, 3664, 3705, 3749, 3794, 3842,
       3892, 3944, 3999, 4057, 4119, 4185, 4255, 4330, 4411, 4499, 4595, 4701,
       4820, 4955, 5110, 5293, 5517, 5806, 6213, 6907, 13816
    >>

\* to_logit: p in thousandths -> log-odds in thousandths
ToLogit(p) ==
    LET q == Clip(p, 0, 1000)
    IN  IF q >= 500 THEN LogitHalf[q - 500 + 1] ELSE 0 - LogitHalf[500 - q + 1]

\* The least p in lo..hi with ToLogit(p) >= z (lo..hi non-empty, ToLogit(hi) >= z)
RECURSIVE LeastProb(_, _, _)
LeastProb(z, lo, hi) ==
    IF lo >= hi THEN hi
    ELSE LET mid == (lo + hi) \div 2
         IN  IF ToLogit(mid) >= z THEN LeastProb(z, lo, mid)
             ELSE LeastProb(z, mid + 1, hi)

\* to_prob: 1 / (1 + exp(-z)), in thousandths, rounded up
ToProb(z) == IF z > ToLogit(1000) THEN 1000 ELSE LeastProb(z, 0, 1000)

\* round(1000 * log10(m)) for m = 1.0, 1.1, ..., 10.0
Log10Mantissa ==
    <<
       0, 41, 79, 114, 146, 176, 204, 230, 255, 279, 301, 322, 342,
       362, 380, 398, 415, 431, 447, 462, 477, 491, 505, 519, 531, 544,
       556, 568, 580, 591, 602, 613, 623, 633, 643, 653, 663, 672, 681,
       690, 699, 708, 716, 724, 732, 740, 748, 756, 763, 771, 778, 785,
       792, 799, 806, 813, 820, 826, 833, 839, 845, 851, 857, 863, 869,
       875, 881, 886, 892, 898, 903, 908, 914, 919, 924, 929, 934, 940,
       944, 949, 954, 959, 964, 968, 973, 978, 982, 987, 991, 996, 1000
    >>

\* 1000 * log10(x / 100) for an integer x >= 100 (x counts hundredths)
RECURSIVE Log10Milli(_)
Log10Milli(x) ==
    IF x >= 1000 THEN 1000 + Log10Milli(x \div 10)
    ELSE LET k  == (x - 100) \div 10
             lo == Log10Mantissa[k + 1]
             hi == Log10Mantissa[IF k + 2 <= Len(Log10Mantissa) THEN k + 2 ELSE k + 1]
         IN  lo + ((hi - lo) * (x - 100 - 10 * k)) \div 10

(***************************************************************************)
(* Configuration (src/app/config.py, DECISION), in the model's units       *)
(***************************************************************************)
UNSURE_LOW == 400

UNSURE_HIGH == 600

AI_THRESHOLD == 800

REAL_THRESHOLD == 200

BLUR_MIN == 40

BRISQUE_MAX == 60

BITRATE_MIN == 150000

ALLOW_ABSTAIN_ON_LOW_QUALITY == TRUE

LOGIC_BREAK_LOGIT_BONUS == 2500

WATERMARK_LOGIT_BONUS == 1200

ANATOMY_LOGIT_BONUS == 1500

WATERMARK_GENERATOR_LOGIT_BONUS == 6000

LOGIC_BREAK_STRONG_LOGIT_BONUS == 5000

\* A plausible slip: the minimum written as a percentage instead of a fraction.
HARD_AI_MIN_PROB_AsPercent == 95 * 1000

HARD_AI_MIN_PROB == 950

\* Thresholds of the quality gate (src/core/config.py)
QG_BLUR_MIN == 60

QG_BRISQUE_MAX == 45

QG_BITRATE_MIN == 200000

\* SHAKE_MAX = 1.5 pixels, in tenths of a pixel
QG_SHAKE_MAX == 15

(***************************************************************************)
(* The evidence bundle (analysis_results).  One record, the sections       *)
(* flattened: wm_* is analysis_results['watermark'], q_* is ['quality'],   *)
(* face_* is ['face_analysis'], the rest carry the key's own name.  The    *)
(* last two fields are the keys predict itself adds to the dict.           *)
(***************************************************************************)
Metrics ==
    {"watermark", "face_analysis", "forensics_flicker", "forensics_prnu",
     "forensics_codec", "audio_sync", "edge_artifacts", "texture_inconsistency",
     "color_anomaly", "freq_artifacts", "mouth_exaggeration", "mouth_static",
     "eye_blink", "face_symmetry", "low_quality_flag", "scene_logic"}

\* assess_quality: the status from the four measurements (None is Absent)
AssessQualityStatus(blur, brisque, bitrate, shake) ==
    IF \/ (blur # Absent /\ blur < QG_BLUR_MIN)
       \/ (brisque # Absent /\ brisque > QG_BRISQUE_MAX)
       \/ (bitrate # Absent /\ bitrate < QG_BITRATE_MIN)
       \/ (shake # Absent /\ shake > QG_SHAKE_MAX)
    THEN "low" ELSE "good"

\* Every evidence score neutral, no watermark, no face, quality good:
\* what analyze_media builds when the extractors find nothing.
NeutralBundle ==
    [wm_detected |-> FALSE, wm_confidence |-> 0, wm_persistent |-> FALSE,
     wm_corner |-> FALSE, wm_generator_hint |-> FALSE,
     wm_watermark |-> NoneText, wm_text |-> NoneText,
     face_detected |-> FALSE, face_num_tracks |-> 0,
     prnu_score |-> 50, flicker_score |-> 50, codec_score |-> 50,
     sync_score |-> 50,
     edge_artifact_score |-> 50, texture_inconsistency |-> 50,
     color_anomaly_score |-> 50, freq_artifact_score |-> 50,
     mouth_exaggeration_score |-> 50, mouth_static_score |-> 50,
     eye_blink_anomaly |-> 50, face_symmetry_drift |-> 50,
     scene_flag |-> FALSE, incoherence_score |-> 50, scene_confidence |-> 0,
     oddity_score |-> 50, rppg_score |-> 50,
     q_status |-> "good", q_blur |-> Absent, q_brisque |-> Absent,
     q_bitrate |-> Absent, q_shake |-> Absent,
     hard_ai_evidence |-> "none", real_evidence_override |-> FALSE]

(***************************************************************************)
(* MetricReliabilityStore: get_metric_weights                              *)
(***************************************************************************)
\* The weight of one metric_stats row, without the final clamp.
RawMetricWeight(correct, incorrect) ==
    LET total == correct + incorrect
    IN  IF total > 0
        THEN LET reliability == (1000 * (correct + 100)) \div (total + 200)
                 log_factor  == Clip(500 + (500 * Log10Milli(total + 1000)) \div 2000,
                                     500, 1500)
                 delta       == (reliability - 500) * 2
             IN  1000 + (delta * log_factor) \div 1000
        ELSE 1000

\* A mutant: the clamp to [0.3, 2.2] left out.
MetricWeight_NoClamp(correct, incorrect) ==
    RawMetricWeight(correct, incorrect) \div 10

\* The weight of one row, in hundredths: 1.0 for an empty row, else
\* 1 + delta * log_factor clamped to [0.3, 2.2].
MetricWeight(correct, incorrect) ==
    IF correct + incorrect > 0
    THEN Clip(RawMetricWeight(correct, incorrect), 300, 2200) \div 10
    ELSE 100

\* get_metric_weights: one weight per row of metric_stats
GetMetricWeights(stats) ==
    [m \in DOMAIN stats |->
        MetricWeight(stats[m].correct_count, stats[m].incorrect_count)]

(***************************************************************************)
(* EvidenceAggregator: DeepfakeFusion.fuse_rule_based                      *)
(***************************************************************************)
\* _get_artifact_scale, in tenths
GetArtifactScale(flow_oddity) ==
    IF flow_oddity <= 15 THEN 2
    ELSE IF flow_oddity <= 25 THEN 4
    ELSE IF flow_oddity <= 35 THEN 7
    ELSE 10

\* weighted(metric, base): base (hundredths) times the adaptive weight
\* (hundredths), 1.0 for a metric that get_metric_weights did not return.
Weighted(metric_weights, metric, base) ==
    base * (IF metric \in DOMAIN metric_weights THEN metric_weights[metric] ELSE 100)

\* A mutant: the PRNU score taken as an AI score, not inverted.
PrnuAiScore_NotInverted(b) == Get(b.prnu_score, 50)

\* `1.0 - prnu`: sensor noise is evidence of a camera, so its absence
\* is the AI score
PrnuAiScore(b) == 100 - Get(b.prnu_score, 50)

\* The (score, weight) pairs fuse_rule_based appends, in order.  A weight
\* is base * scale * adaptive weight, in units of 1e-5.
FusionItems(b, metric_weights) ==
    LET W(m, base) == Weighted(metric_weights, m, base)
        oddity          == Get(b.oddity_score, 50)
        forensics_scale == IF oddity <= 30 THEN GetArtifactScale(oddity) ELSE 10
        artifact_scale  == GetArtifactScale(oddity)
    IN  (IF b.wm_detected THEN << <<75, W("watermark", 40) * 10>> >> ELSE <<>>)
        \o (IF b.face_detected THEN << <<50, W("face_analysis", 25) * 10>> >> ELSE <<>>)
        \o << <<PrnuAiScore(b), W("forensics_prnu", 20) * 10>>,
              <<Get(b.flicker_score, 50), W("forensics_flicker", 18) * forensics_scale>>,
              <<Get(b.codec_score, 50), W("forensics_codec", 15) * forensics_scale>>,
              <<100 - Get(b.sync_score, 50), W("audio_sync", 12) * 10>>,
              <<Get(b.edge_artifact_score, 50), W("edge_artifacts", 16) * artifact_scale>>,
              <<Get(b.texture_inconsistency, 50),
                W("texture_inconsistency", 14) * artifact_scale>>,
              <<Get(b.color_anomaly_score, 50), W("color_anomaly", 10) * artifact_scale>>,
              <<Get(b.freq_artifact_score, 50), W("freq_artifacts", 14) * artifact_scale>>,
              <<Get(b.mouth_exaggeration_score, 50), W("mouth_exaggeration", 16) * 10>>,
              <<Get(b.mouth_static_score, 50), W("mouth_static", 14) * 10>>,
              <<Get(b.eye_blink_anomaly, 50), W("eye_blink", 12) * 10>>,
              <<Get(b.face_symmetry_drift, 50), W("face_symmetry", 10) * 10>>,
              <<Get(b.incoherence_score, 50), W("scene_logic", 8) * 10>> >>

RECURSIVE SumWeights(_, _)
SumWeights(items, i) ==
    IF i > Len(items) THEN 0 ELSE items[i][2] + SumWeights(items, i + 1)

RECURSIVE SumScores(_, _)
SumScores(items, i) ==
    IF i > Len(items) THEN 0
    ELSE items[i][1] * items[i][2] + SumScores(items, i + 1)

\* `weights = [w * 0.85 for w in weights]` when the quality status is low:
\* 0.85 is 17/20, so every weight is counted in twentieths.
QualityFactor(b) == IF b.q_status = "low" THEN 17 ELSE 20

\* np.average(scores, weights=weights) in thousandths (scores are hundredths)
\* A mutant: the scaled weights are normalised by the sum of the unscaled
\* weights.
WeightedAverage_UnscaledSum(items, factor) ==
    LET den == 20 * SumWeights(items, 1)
        num == factor * SumScores(items, 1)
    IN  10 * (num \div den) + (10 * (num % den)) \div den

WeightedAverage(items, factor) ==
    LET den == factor * SumWeights(items, 1)
        num == factor * SumScores(items, 1)
    IN  10 * (num \div den) + (10 * (num % den)) \div den

\* fuse_rule_based: the probability of AI in thousandths
FuseRuleBased(b, metric_weights) ==
    LET items == FusionItems(b, metric_weights)
    IN  IF Len(items) > 0
        THEN Clip(WeightedAverage(items, QualityFactor(b)), 0, 1000)
        ELSE 500

\* A mutant: the rPPG and flow thresholds as they were before they were
\* relaxed (0.20 and 0.15).
RealEvidenceDetails_OldThresholds(b) ==
    {d \in {"strong_prnu", "good_sync", "strong_rppg", "smooth_motion",
            "scene_coherent"} :
        \/ d = "strong_prnu" /\ Get(b.prnu_score, 50) >= 70
        \/ d = "good_sync" /\ Get(b.sync_score, 50) >= 80
        \/ d = "strong_rppg" /\ Get(b.rppg_score, 50) <= 20
        \/ d = "smooth_motion" /\ Get(b.oddity_score, 50) <= 15
        \/ d = "scene_coherent" /\ Get(b.incoherence_score, 50) <= 35
                                /\ ~b.scene_flag}

(***************************************************************************)
(* LogitEvidenceAdjuster: DeepfakeFusion._apply_hard_evidence_boosts       *)
(***************************************************************************)
\* The five real-evidence cues, as the names appended to real_evidence_details.
\* The five float() conversions come first and sit in a try whose except
\* passes: a None among the five scores leaves the list empty.
RealEvidenceDetails(b) ==
    {d \in {"strong_prnu", "good_sync", "strong_rppg", "smooth_motion",
            "scene_coherent"} :
        /\ Null \notin {b.prnu_score, b.sync_score, b.rppg_score, b.oddity_score,
                        b.incoherence_score}
        /\ \/ d = "strong_prnu" /\ Get(b.prnu_score, 50) >= 70
           \/ d = "good_sync" /\ Get(b.sync_score, 50) >= 80
           \/ d = "strong_rppg" /\ Get(b.rppg_score, 50) <= 25
           \/ d = "smooth_motion" /\ Get(b.oddity_score, 50) <= 20
           \/ d = "scene_coherent" /\ Get(b.incoherence_score, 50) <= 35
                                   /\ ~b.scene_flag}

\* What each cue subtracts from the log-odds
CalmingLogit(d) ==
    CASE d = "strong_prnu"    -> 600
      [] d = "good_sync"      -> 300
      [] d = "strong_rppg"    -> 300
      [] d = "smooth_motion"  -> 300
      [] d = "scene_coherent" -> 150

RECURSIVE SumCalming(_)
SumCalming(ds) ==
    IF ds = {} THEN 0
    ELSE LET d == CHOOSE x \in ds : TRUE
         IN  CalmingLogit(d) + SumCalming(ds \ {d})

HasLogicBreak(b) == b.scene_flag /\ Get(b.scene_confidence, 0) >= 80

HasStrongLogicBreak(b) ==
    /\ b.scene_flag
    /\ Get(b.incoherence_score, 0) >= 80
    /\ Get(b.scene_confidence, 0) >= 80

AnatomyMax(b) ==
    Max(Max(Get(b.mouth_exaggeration_score, 0), Get(b.mouth_static_score, 0)),
        Max(Get(b.eye_blink_anomaly, 0), Get(b.face_symmetry_drift, 0)))

\* The log-odds after calming and boosts.  has_generator_wm and has_wm are
\* the constant False in this function, so no watermark bonus is ever added.
BoostedLogit(prob_ai, b) ==
    LET has_generator_wm == FALSE
        has_wm           == FALSE
    IN  ToLogit(prob_ai)
        - SumCalming(RealEvidenceDetails(b))
        + (IF has_generator_wm THEN WATERMARK_GENERATOR_LOGIT_BONUS
           ELSE IF has_wm THEN WATERMARK_LOGIT_BONUS ELSE 0)
        + (IF HasStrongLogicBreak(b) THEN LOGIC_BREAK_STRONG_LOGIT_BONUS
           ELSE IF HasLogicBreak(b) THEN LOGIC_BREAK_LOGIT_BONUS ELSE 0)
        + (IF AnatomyMax(b) >= 90 THEN ANATOMY_LOGIT_BONUS ELSE 0)

\* A mutant: the override already with three cues.
RealEvidenceOverrideFires_ThreeCues(prob_after_boosts, b) ==
    Cardinality(RealEvidenceDetails(b)) >= 3 /\ prob_after_boosts > 750

\* The real-evidence override: >= 4 cues and a post-boost probability > 0.75
RealEvidenceOverrideFires(prob_after_boosts, b) ==
    Cardinality(RealEvidenceDetails(b)) >= 4 /\ prob_after_boosts > 750

\* A mutant: hard evidence noted, but the minimum not enforced.
ApplyHardEvidenceBoosts_NoEnforcement(prob_ai, b) ==
    LET prob_after_boosts == ToProb(BoostedLogit(prob_ai, b))
    IN  IF HasStrongLogicBreak(b)
        THEN [prob   |-> prob_after_boosts,
              bundle |-> [b EXCEPT !.hard_ai_evidence = "boosts"]]
        ELSE IF RealEvidenceOverrideFires(prob_after_boosts, b)
        THEN [prob   |-> 650,
              bundle |-> [b EXCEPT !.real_evidence_override = TRUE]]
        ELSE [prob |-> prob_after_boosts, bundle |-> b]

\* _apply_hard_evidence_boosts: the returned probability and the bundle
\* with the key the function adds to it
ApplyHardEvidenceBoosts(prob_ai, b) ==
    LET prob_after_boosts == ToProb(BoostedLogit(prob_ai, b))
        hard_ai_evidence  == FALSE \/ HasStrongLogicBreak(b)
    IN  IF hard_ai_evidence
        THEN [prob   |-> Max(prob_after_boosts, HARD_AI_MIN_PROB),
              bundle |-> [b EXCEPT !.hard_ai_evidence = "boosts"]]
        ELSE IF RealEvidenceOverrideFires(prob_after_boosts, b)
        THEN [prob   |-> 650,
              bundle |-> [b EXCEPT !.real_evidence_override = TRUE]]
        ELSE [prob |-> prob_after_boosts, bundle |-> b]

(***************************************************************************)
(* DecisionPolicy: DeepfakeFusion.predict                                  *)
(***************************************************************************)
strict_generator_keywords ==
    <<
       <<"S", "O", "R", "A">>,
       <<"S", "O", "R", "A", " ", "A", "I">>,
       <<"S", "O", "R", "A", ".", "A", "I">>,
       <<"S", "O", "R", "A", "-", "A", "I">>,
       <<"R", "U", "N", "W", "A", "Y">>,
       <<"R", "U", "N", "W", "A", "Y", "M", "L">>,
       <<"R", "U", "N", "W", "A", "Y", " ", "M", "L">>,
       <<"G", "E", "N", "-", "2">>,
       <<"G", "E", "N", "-", "3">>,
       <<"V", "E", "O">>,
       <<"I", "M", "A", "G", "E", "N">>,
       <<"M", "I", "D", "J", "O", "U", "R", "N", "E", "Y">>,
       <<"P", "I", "K", "A">>,
       <<"S", "Y", "N", "T", "H", "E", "S", "I", "A">>,
       <<"D", "-", "I", "D">>,
       <<"H", "E", "Y", "G", "E", "N">>,
       <<"D", "A", "L", "L", "-", "E">>,
       <<"D", "A", "L", "L", "E">>
    >>

\* `for keyword in strict_generator_keywords: if keyword in check_text`
MatchesGeneratorKeyword(check_text) ==
    \E i \in 1..Len(strict_generator_keywords) :
        Contains(strict_generator_keywords[i], check_text)

\* str(wm.get('watermark', '') or '').upper().strip()
WmText(b) == Strip(Upper(OrEmpty(b.wm_watermark)))

\* str(wm.get('text', '') or '').upper().strip()
RawText(b) == Strip(Upper(OrEmpty(b.wm_text)))

\* `wm_text or raw_text`
CheckText(b) == IF WmText(b) # <<>> THEN WmText(b) ELSE RawText(b)

\* A mutant: only the checks that rest on the detector's generator hint.
HasGeneratorWm_HintOnly(b) ==
    LET conf    == Get(b.wm_confidence, 0)
        matches == CheckText(b) # <<>> /\ MatchesGeneratorKeyword(CheckText(b))
        check1  == b.wm_generator_hint /\ conf >= 75 /\ b.wm_persistent /\ matches
        check2  == /\ b.wm_generator_hint
                   /\ IF conf >= 80 THEN matches
                      ELSE b.wm_persistent /\ b.wm_corner /\ conf >= 70 /\ matches
    IN  /\ b.wm_detected
        /\ ~(b.wm_watermark = NoneText /\ b.wm_text = NoneText /\ ~b.wm_generator_hint)
        /\ (check1 \/ check2)

\* A mutant: the checks without the keyword match on the text.
HasGeneratorWm_NoKeywordMatch(b) ==
    LET conf    == Get(b.wm_confidence, 0)
        hasText == CheckText(b) # <<>>
        check1  == b.wm_generator_hint /\ conf >= 75 /\ b.wm_persistent /\ hasText
        check2  == /\ b.wm_generator_hint
                   /\ IF conf >= 80 THEN hasText
                      ELSE b.wm_persistent /\ b.wm_corner /\ conf >= 70 /\ hasText
        check3  == b.wm_persistent /\ b.wm_corner /\ conf >= 85 /\ hasText
    IN  /\ b.wm_detected
        /\ ~(b.wm_watermark = NoneText /\ b.wm_text = NoneText /\ ~b.wm_generator_hint)
        /\ (check1 \/ check2 \/ check3)

\* predict's three checks for a generator watermark, entered only for a
\* detected watermark that carries a text or the generator hint.
HasGeneratorWm(b) ==
    LET conf    == Get(b.wm_confidence, 0)
        matches == CheckText(b) # <<>> /\ MatchesGeneratorKeyword(CheckText(b))
        check1  == b.wm_generator_hint /\ conf >= 75 /\ b.wm_persistent /\ matches
        check2  == /\ b.wm_generator_hint
                   /\ IF conf >= 80 THEN matches
                      ELSE b.wm_persistent /\ b.wm_corner /\ conf >= 70 /\ matches
        check3  == b.wm_persistent /\ b.wm_corner /\ conf >= 85 /\ matches
    IN  /\ b.wm_detected
        /\ ~(b.wm_watermark = NoneText /\ b.wm_text = NoneText /\ ~b.wm_generator_hint)
        /\ (check1 \/ check2 \/ check3)

\* The final safeguard before the watermark override
FinalCheck(b) ==
    \/ WmText(b) # <<>> \/ RawText(b) # <<>>
    \/ (b.wm_generator_hint /\ Get(b.wm_confidence, 0) >= 85)

\* The number of strong independent branches (independence rule)
StrongBranches(b) ==
    Cardinality({k \in 1..5 :
        \/ k = 1 /\ b.wm_detected /\ b.wm_persistent /\ b.wm_corner
                 /\ Get(b.wm_confidence, 0) >= 85
        \/ k = 2 /\ b.scene_flag /\ Get(b.scene_confidence, 0) >= 80
        \/ k = 3 /\ (Get(b.freq_artifact_score, 0) >= 80
                     \/ Get(b.edge_artifact_score, 0) >= 80)
        \/ k = 4 /\ AnatomyMax(b) >= 85
        \/ k = 5 /\ (Get(b.oddity_score, 0) >= 80 \/ Get(b.rppg_score, 0) >= 80)})

\* A mutant: the independence rule left out.
ApplyCaps_NoIndependenceRule(prob, b) ==
    IF b.q_status = "low" /\ StrongBranches(b) <= 1 THEN Min(prob, 750) ELSE prob

\* A mutant: the quality cap only for media with no strong branch at all.
ApplyCaps_QualityCapNoBranch(prob, b) ==
    LET strong == StrongBranches(b)
        capped == IF prob > 900 /\ strong < 2 THEN 900 ELSE prob
    IN  IF b.q_status = "low" /\ strong < 1 THEN Min(capped, 750) ELSE capped

\* The independence rule and the quality-conditioned cap (both skipped
\* when has_hard_ai)
ApplyCaps(prob, b) ==
    LET strong == StrongBranches(b)
        capped == IF prob > 900 /\ strong < 2 THEN 900 ELSE prob
    IN  IF b.q_status = "low" /\ strong <= 1 THEN Min(capped, 750) ELSE capped

\* A mutant: predict aggregates with the weights the constructor read.
RefreshedWeights_FromConstructor(own, stats) == own

\* `self.metric_weights = get_metric_weights()`: own is the attribute as the
\* constructor left it, stats the table as the call reads it.
RefreshedWeights(own, stats) == GetMetricWeights(stats)

\* predict on the rule-based path (no trained model and no calibration file
\* are part of the repository), given the weights it aggregates with: the
\* returned probability and the bundle as the call leaves it.
PredictWith(b, metric_weights) ==
    IF HasGeneratorWm(b) /\ FinalCheck(b)
    THEN [prob   |-> HARD_AI_MIN_PROB,
          bundle |-> [b EXCEPT !.hard_ai_evidence = "watermark_override"]]
    ELSE LET boosted == ApplyHardEvidenceBoosts(FuseRuleBased(b, metric_weights), b)
             after   == boosted.bundle
             has_hard_ai == after.hard_ai_evidence # "none"
         IN  IF has_hard_ai /\ after.hard_ai_evidence = "watermark_override"
             THEN boosted
             ELSE [prob   |-> Clip(IF has_hard_ai THEN boosted.prob
                                   ELSE ApplyCaps(boosted.prob, after), 0, 1000),
                   bundle |-> after]

\* predict by an object whose weights are those of the table stats
Predict(b, stats) == PredictWith(b, GetMetricWeights(stats))

(***************************************************************************)
(* None values: where predict raises TypeError                             *)
(***************************************************************************)
\* predict enters its generator-watermark checks
WatermarkChecksEntered(b) ==
    /\ b.wm_detected
    /\ ~(b.wm_watermark = NoneText /\ b.wm_text = NoneText /\ ~b.wm_generator_hint)

\* `conf >= 0.75` (Check 1) is evaluated for every hinted watermark, and
\* `conf >= 0.85` (Check 3) once persistent and corner hold: None >= float
\* raises TypeError.
WatermarkChecksRaise(b) ==
    /\ WatermarkChecksEntered(b)
    /\ b.wm_confidence = Null
    /\ (b.wm_generator_hint \/ (b.wm_persistent /\ b.wm_corner))

\* fuse_rule_based puts every score into arithmetic: 1.0 - prnu, float(oddity),
\* 1.0 - av_score, and np.average over the list of the others.
FuseRuleBasedRaises(b) ==
    \E f \in {"prnu_score", "flicker_score", "codec_score", "sync_score",
              "edge_artifact_score", "texture_inconsistency", "color_anomaly_score",
              "freq_artifact_score", "mouth_exaggeration_score", "mouth_static_score",
              "eye_blink_anomaly", "face_symmetry_drift", "incoherence_score",
              "oddity_score"} : b[f] = Null

\* _apply_hard_evidence_boosts outside its try: has_logic_break compares the
\* scene confidence as soon as the flag is set.
BoostsRaise(b) == b.scene_flag /\ b.scene_confidence = Null

\* The independence rule compares the watermark confidence of a detected
\* persistent corner watermark, and the rPPG score unless the flow oddity
\* already reached 0.8.
CapsRaise(b) ==
    \/ (b.wm_detected /\ b.wm_persistent /\ b.wm_corner /\ b.wm_confidence = Null)
    \/ (b.rppg_score = Null /\ ~(Get(b.oddity_score, 0) >= 80))

PredictRaises(b) ==
    \/ WatermarkChecksRaise(b)
    \/ /\ ~(HasGeneratorWm(b) /\ FinalCheck(b))
       /\ \/ FuseRuleBasedRaises(b)
          \/ BoostsRaise(b)
          \/ (~HasStrongLogicBreak(b) /\ CapsRaise(b))

\* The bundle as a raising predict leaves it: the caps run after
\* _apply_hard_evidence_boosts has written its key.
BundleAtRaise(b, stats) ==
    IF WatermarkChecksRaise(b) \/ FuseRuleBasedRaises(b) \/ BoostsRaise(b)
    THEN b
    ELSE ApplyHardEvidenceBoosts(FuseRuleBased(b, GetMetricWeights(stats)), b).bundle

(***************************************************************************)
(* ReasonGenerator: generate_reasons                                       *)
(***************************************************************************)
\* The reasons in the order generate_reasons appends them: name and weight
\* (hundredths).
ReasonCandidates(b) ==
    LET on(c, r) == IF c THEN <<r>> ELSE <<>>
    IN  on(b.hard_ai_evidence # "none", <<"hard_ai_evidence", 100>>)
        \o on(b.real_evidence_override, <<"real_evidence_override", 100>>)
        \o on(Get(b.oddity_score, 50) <= 30, <<"artifact_downweight", 50>>)
        \o on(b.wm_detected, <<"watermark", 40>>)
        \o on(b.face_detected, <<"face_analysis", 20>>)
        \o on(Get(b.edge_artifact_score, 0) > 65, <<"edge_artifacts", 18>>)
        \o on(Get(b.texture_inconsistency, 0) > 65, <<"texture_inconsistency", 15>>)
        \o on(Get(b.color_anomaly_score, 0) > 65, <<"color_anomaly", 12>>)
        \o on(Get(b.freq_artifact_score, 0) > 65, <<"frequency_artifact", 14>>)
        \o on(Get(b.mouth_exaggeration_score, 0) > 65, <<"mouth_exaggeration", 17>>)
        \o on(Get(b.mouth_static_score, 0) > 65, <<"mouth_static", 14>>)
        \o on(Get(b.eye_blink_anomaly, 0) > 65, <<"eye_blink", 13>>)
        \o on(Get(b.face_symmetry_drift, 0) > 65, <<"face_symmetry", 10>>)
        \o on(Get(b.flicker_score, 50) > 70, <<"flicker", 15>>)
        \o on(Get(b.prnu_score, 50) < 30, <<"prnu", 15>>)
        \o on(Get(b.sync_score, 50) < 50, <<"audio_sync", 10>>)

\* A mutant: the list returned in the order of the appends.
SortByWeight_Unsorted(rs) == rs

\* list.sort(key=weight, reverse=True): stable, so equal weights keep the
\* order in which they were appended.
RECURSIVE SortByWeight(_)
SortByWeight(rs) ==
    IF rs = <<>> THEN <<>>
    ELSE LET i == CHOOSE k \in 1..Len(rs) :
                    /\ \A j \in 1..Len(rs) : rs[j][2] <= rs[k][2]
                    /\ \A j \in 1..(k - 1) : rs[j][2] < rs[k][2]
         IN  <<rs[i]>> \o SortByWeight(SubSeq(rs, 1, i - 1) \o SubSeq(rs, i + 1, Len(rs)))

\* generate_reasons: the five heaviest reasons
GenerateReasons(b) ==
    LET sorted == SortByWeight(ReasonCandidates(b))
    IN  SubSeq(sorted, 1, Min(5, Len(sorted)))

\* float(oddity), the > 0.65 tests of the artifact and facial scores,
\* flicker > 0.7, prnu < 0.3 and av_score < 0.5 raise TypeError on None.
GenerateReasonsRaises(b) ==
    \E f \in {"oddity_score", "edge_artifact_score", "texture_inconsistency",
              "color_anomaly_score", "freq_artifact_score", "mouth_exaggeration_score",
              "mouth_static_score", "eye_blink_anomaly", "face_symmetry_drift",
              "flicker_score", "prnu_score", "sync_score"} : b[f] = Null

(***************************************************************************)
(* Verdict mapping                                                         *)
(***************************************************************************)
\* decide's own low-quality test, from the measurements (None is Absent)
QLow(blur, brisque, bitrate) ==
    \/ (blur # Absent /\ blur < BLUR_MIN)
    \/ (brisque # Absent /\ brisque > BRISQUE_MAX)
    \/ (bitrate # Absent /\ bitrate < BITRATE_MIN)

\* The threshold part shared by both verdict functions
\* A mutant: between the unsure band and a threshold the verdict is UNSURE.
ThresholdVerdict_UnsureToThresholds(prob_ai) ==
    IF prob_ai >= AI_THRESHOLD THEN "AI"
    ELSE IF prob_ai <= REAL_THRESHOLD THEN "REAL"
    ELSE "UNSURE"

ThresholdVerdict(prob_ai) ==
    IF prob_ai >= AI_THRESHOLD THEN "AI"
    ELSE IF prob_ai <= REAL_THRESHOLD THEN "REAL"
    ELSE IF UNSURE_LOW <= prob_ai /\ prob_ai <= UNSURE_HIGH THEN "UNSURE"
    ELSE IF prob_ai > 500 THEN "AI" ELSE "REAL"

\* analyze_media.decide(prob_ai, quality)
Decide(prob_ai, b) ==
    IF /\ QLow(b.q_blur, b.q_brisque, b.q_bitrate)
       /\ ALLOW_ABSTAIN_ON_LOW_QUALITY
       /\ UNSURE_LOW <= prob_ai /\ prob_ai <= UNSURE_HIGH
    THEN "ABSTAIN"
    ELSE ThresholdVerdict(prob_ai)

\* DeepfakeFusion.get_verdict(prob_ai, quality_status)
GetVerdict(prob_ai, quality_status) ==
    IF ALLOW_ABSTAIN_ON_LOW_QUALITY /\ quality_status = "low"
    THEN "ABSTAIN"
    ELSE ThresholdVerdict(prob_ai)

(***************************************************************************)
(* Bounds and input domains                                                *)
(***************************************************************************)
\* How many fields of a base bundle the extractors may change in one run.
MaxEdits == 1

T_SORA == <<"S", "O", "R", "A">>

T_sora_ai == <<" ", "s", "o", "r", "a", " ", "a", "i", " ">>

T_CNN == <<"C", "N", "N">>

T_Veo == <<"V", "e", "o", " ", "3">>

BoolFields ==
    {"wm_detected", "wm_persistent", "wm_corner", "wm_generator_hint",
     "face_detected", "scene_flag"}

RealFields == {"prnu_score", "sync_score"}

\* The forensic, artifact, facial-dynamics and scene-logic scores
AIFields ==
    {"flicker_score", "codec_score", "edge_artifact_score", "texture_inconsistency",
     "color_anomaly_score", "freq_artifact_score", "mouth_exaggeration_score",
     "mouth_static_score", "eye_blink_anomaly", "face_symmetry_drift",
     "incoherence_score"}

\* The optical-flow oddity and the rPPG coherence
TemporalFields == {"oddity_score", "rppg_score"}

QualityFields == {"q_blur", "q_brisque", "q_bitrate", "q_shake"}

Fields ==
    BoolFields \cup RealFields \cup AIFields \cup TemporalFields
    \cup {"wm_confidence", "wm_watermark", "wm_text", "scene_confidence"}

\* The values an extractor may write to a field: each threshold the code
\* tests, a value on either side of it, the missing key, and for two scores
\* a value far outside [0, 1].
FieldValues(f) ==
    CASE f \in BoolFields -> BOOLEAN
      [] f = "wm_confidence" -> {70, 75, 80, 85, 90}
      [] f = "wm_watermark" -> {NoneText, <<>>, T_SORA, T_CNN}
      [] f = "wm_text" -> {NoneText, T_sora_ai, T_Veo}
      [] f = "scene_confidence" -> {79, 80, 90}
      [] f = "prnu_score" -> {0, 50, 70, 85, 300}
      [] f = "sync_score" -> {0, 50, 80, 90}
      [] f = "flicker_score" -> {0, 50, 100, 300}
      [] f = "codec_score" -> {0, 50, 100}
      [] f = "edge_artifact_score" -> {0, 50, 80, 100}
      [] f = "texture_inconsistency" -> {0, 50, 100}
      [] f = "color_anomaly_score" -> {0, 50, 100}
      [] f = "freq_artifact_score" -> {0, 50, 80, 95}
      [] f = "mouth_exaggeration_score" -> {Absent, 0, 50, 85, 90, 100}
      [] f = "mouth_static_score" -> {0, 50, 70, 100}
      [] f = "eye_blink_anomaly" -> {0, 50, 85}
      [] f = "face_symmetry_drift" -> {0, 50, 100}
      [] f = "incoherence_score" -> {Absent, 10, 35, 50, 80, 100}
      [] f = "oddity_score" -> {Absent, 10, 15, 20, 25, 30, 35, 50, 80}
      [] f = "rppg_score" -> {10, 25, 50, 80}

QualityValues(f) ==
    CASE f = "q_blur" -> {Absent, 30, 50, 80}
      [] f = "q_brisque" -> {Absent, 40, 50, 70}
      [] f = "q_bitrate" -> {Absent, 100000, 180000, 300000}
      [] f = "q_shake" -> {Absent, 10, 20}

\* Scenario B: a verified generator watermark, everything else neutral
GeneratorWmBundle ==
    [NeutralBundle EXCEPT !.wm_detected = TRUE, !.wm_persistent = TRUE,
                          !.wm_corner = TRUE, !.wm_confidence = 90,
                          !.wm_generator_hint = TRUE, !.wm_watermark = T_SORA]

\* Scenario C: the five real-evidence cues
RealEvidenceBundle ==
    [NeutralBundle EXCEPT !.prnu_score = 85, !.sync_score = 90, !.rppg_score = 10,
                          !.oddity_score = 10, !.incoherence_score = 10]

\* Scenario D: one strong artifact metric on low-quality media
LowQualityArtifactBundle ==
    [NeutralBundle EXCEPT !.freq_artifact_score = 95, !.q_blur = 30,
                          !.q_status = "low"]

\* A strong scene-logic break
LogicBreakBundle ==
    [NeutralBundle EXCEPT !.scene_flag = TRUE, !.scene_confidence = 90,
                          !.incoherence_score = 90]

\* Every AI-evidence score high, every real-evidence score low
HighAIBundle ==
    [NeutralBundle EXCEPT !.prnu_score = 0, !.sync_score = 0,
        !.flicker_score = 100, !.codec_score = 100, !.edge_artifact_score = 100,
        !.texture_inconsistency = 100, !.color_anomaly_score = 100,
        !.freq_artifact_score = 100, !.mouth_exaggeration_score = 100,
        !.mouth_static_score = 100, !.eye_blink_anomaly = 100,
        !.face_symmetry_drift = 100, !.incoherence_score = 100,
        !.oddity_score = 50, !.rppg_score = 50]

\* Genuine footage that the artifact heuristics dislike: four real-evidence
\* cues together with high facial-dynamics and scene scores
CompressedRealBundle ==
    [HighAIBundle EXCEPT !.prnu_score = 70, !.sync_score = 80, !.rppg_score = 10,
                         !.oddity_score = 10, !.mouth_static_score = 70]

\* A generator's name read in a persistent corner watermark, without the
\* detector's generator hint
UnhintedWmBundle == [GeneratorWmBundle EXCEPT !.wm_generator_hint = FALSE]

\* Scenario D on a still scene (no flicker at all)
StillLowQualityArtifactBundle == [LowQualityArtifactBundle EXCEPT !.flicker_score = 0]

\* A regular (not strong) scene-logic break on low-bitrate media
LowQualityLogicBreakBundle ==
    [NeutralBundle EXCEPT !.scene_flag = TRUE, !.scene_confidence = 90,
                          !.q_bitrate = 100000, !.q_status = "low"]

\* A strong scene-logic break on low-quality footage whose sensor, sync,
\* rPPG and motion cues all say real and whose artifact scores are zero
CalmStrongBreakBundle ==
    [RealEvidenceBundle EXCEPT !.scene_flag = TRUE, !.incoherence_score = 80,
        !.scene_confidence = 80, !.flicker_score = 0, !.codec_score = 0,
        !.edge_artifact_score = 0, !.texture_inconsistency = 0,
        !.color_anomaly_score = 0, !.freq_artifact_score = 0,
        !.mouth_exaggeration_score = 0, !.mouth_static_score = 0,
        !.eye_blink_anomaly = 0, !.face_symmetry_drift = 0,
        !.q_bitrate = 100000, !.q_status = "low"]

\* The empty dict: every key missing
EmptyBundle ==
    [wm_detected |-> FALSE, wm_confidence |-> Absent, wm_persistent |-> FALSE,
     wm_corner |-> FALSE, wm_generator_hint |-> FALSE,
     wm_watermark |-> NoneText, wm_text |-> NoneText,
     face_detected |-> FALSE, face_num_tracks |-> Absent,
     prnu_score |-> Absent, flicker_score |-> Absent, codec_score |-> Absent,
     sync_score |-> Absent,
     edge_artifact_score |-> Absent, texture_inconsistency |-> Absent,
     color_anomaly_score |-> Absent, freq_artifact_score |-> Absent,
     mouth_exaggeration_score |-> Absent, mouth_static_score |-> Absent,
     eye_blink_anomaly |-> Absent, face_symmetry_drift |-> Absent,
     scene_flag |-> FALSE, incoherence_score |-> Absent, scene_confidence |-> Absent,
     oddity_score |-> Absent, rppg_score |-> Absent,
     q_status |-> "missing", q_blur |-> Absent, q_brisque |-> Absent,
     q_bitrate |-> Absent, q_shake |-> Absent,
     hard_ai_evidence |-> "none", real_evidence_override |-> FALSE]

BaseBundles ==
    {EmptyBundle, NeutralBundle, GeneratorWmBundle, UnhintedWmBundle, RealEvidenceBundle,
     LowQualityArtifactBundle, LogicBreakBundle, LowQualityLogicBreakBundle,
     HighAIBundle, CompressedRealBundle, CalmStrongBreakBundle}

\* The bundles the monotonicity runs start from: the base bundles at three
\* levels of flow oddity, of one facial score and of one artifact score
MonoBundles ==
    {[b EXCEPT !.oddity_score = o, !.mouth_static_score = m, !.edge_artifact_score = e] :
        b \in BaseBundles, o \in {10, 30, 50}, m \in {50, 70, 100}, e \in {0, 50}}

\* The quality dicts the verdict runs draw from, as assess_quality fills them
QualityBundles ==
    {[NeutralBundle EXCEPT !.q_blur = bl, !.q_brisque = br, !.q_bitrate = bi,
                           !.q_shake = sh,
                           !.q_status = AssessQualityStatus(bl, br, bi, sh)] :
        bl \in {Absent, 30, 50}, br \in {Absent, 70}, bi \in {Absent, 180000},
        sh \in {Absent, 20}}

Row(c, i) == [correct_count |-> c, incorrect_count |-> i]

\* metric_stats tables that earlier feedback can have left in the database:
\* empty; facial metrics proven right and sensor metrics proven wrong; and
\* the reverse.
StatsProfiles ==
    {<<>>,
     [m \in {"mouth_exaggeration", "mouth_static", "forensics_prnu", "audio_sync"} |->
        IF m \in {"mouth_exaggeration", "mouth_static"}
        THEN Row(70000, 0) ELSE Row(0, 1100)],
     [m \in {"mouth_exaggeration", "scene_logic", "forensics_prnu", "watermark"} |->
        IF m \in {"forensics_prnu", "watermark"}
        THEN Row(70000, 100) ELSE Row(50, 1150)]}

\* The tables the store's own runs start from
StoreStatsProfiles ==
    {<<>>,
     [m \in {"freq_artifacts", "low_quality_flag", "mouth_static"} |->
        IF m = "mouth_static" THEN Row(70000, 0) ELSE Row(0, 1050)]}

(***************************************************************************)
(* State                                                                   *)
(***************************************************************************)
VARIABLES
    bundle,          \* analysis_results of the analysis in progress
    edits,           \* how many fields the extractors have written
    prob_ai,         \* predict's return value; Absent before the call
    verdict,         \* decide's return value; "none" before the call
    fusion_verdict,  \* DeepfakeFusion.get_verdict's return value
    metric_weights,  \* DeepfakeFusion.metric_weights
    prev,            \* predict's result for the bundle a score was raised from
    raised,          \* the score that was raised for the second analysis
    error,           \* the exception a call of the analysis raised; "none" if none
    reasons,         \* generate_reasons' return value; NotCalled before the call
    metric_stats,    \* table metric_stats: metric -> its two counters
    detections,      \* table detections: id -> verdict, features, feedback_received
    feedback,        \* table feedback: the rows in insertion (AUTOINCREMENT) order
    pc,              \* per request thread: where it is in submit_feedback
    args,            \* per request thread: detection_id, user_label, notes
    row,             \* per request thread: the detections row its SELECT returned
    ret,             \* per request thread: store_feedback's return value
    path,            \* per request thread: the return statement it left by
    http,            \* per request thread: the status code of the response
    ncalls,          \* how many /feedback requests have been made
    nstores,         \* how many store_detection calls have been made
    tx,              \* the uncommitted writes of the connection that holds the write lock
    jobs,            \* analysis_manager._jobs: job id -> the job's dictionary
    thread,          \* per job: where its _run_job thread is
    polled           \* what the last get_job call returned

fusionVars ==
    <<bundle, edits, prob_ai, verdict, fusion_verdict, metric_weights, prev, raised,
      error, reasons>>

storeVars == <<detections, feedback, pc, args, row, ret, path, http, ncalls, nstores, tx>>

jobVars == <<jobs, thread, polled>>

vars == <<fusionVars, metric_stats, storeVars, jobVars>>

(***************************************************************************)
(* MetricReliabilityStore: store_detection and store_feedback              *)
(***************************************************************************)
\* The request threads that serve POST /feedback
Callers == {"t1", "t2"}

\* How many /feedback requests and store_detection calls a run makes.
MaxCalls == 2

MaxStores == 2

\* `notes[:500]`
NOTES_MAX_LEN == 500

DetIds == {"d1", "d2"}

\* An id no detection was ever stored under
UnknownId == "d9"

\* The characters of a verdict string
Chars(v) ==
    CASE v = "AI" -> <<"A", "I">>
      [] v = "REAL" -> <<"R", "E", "A", "L">>
      [] v = "UNSURE" -> <<"U", "N", "S", "U", "R", "E">>
      [] v = "ABSTAIN" -> <<"A", "B", "S", "T", "A", "I", "N">>

L_AI == <<"A", "I">>

L_real == <<"r", "e", "a", "l">>

N_lip_blur == <<" ", "L", "i", "p", " ", "b", "l", "u", "r">>

\* The store_detection calls a run may make: (id, verdict, features)
StoreCalls ==
    {<<"d1", "AI", LowQualityArtifactBundle>>,
     <<"d1", "UNSURE", StillLowQualityArtifactBundle>>,
     <<"d2", "REAL", GeneratorWmBundle>>}

\* The bodies a POST /feedback may carry: (feedbackId, userLabel, notes)
Requests ==
    {<<"d1", L_AI, NoneText>>,
     <<"d1", L_real, N_lip_blur>>,
     <<"d2", L_real, NoneText>>,
     <<UnknownId, L_AI, NoneText>>,
     <<"", L_AI, NoneText>>,
     <<"d1", <<>>, NoneText>>}

keyword_map ==
    <<
       <<<<"m", "o", "u", "t", "h">>, "mouth_exaggeration">>,
       <<<<"l", "i", "p">>, "mouth_static">>,
       <<<<"b", "l", "i", "n", "k">>, "eye_blink">>,
       <<<<"e", "y", "e">>, "eye_blink">>,
       <<<<"h", "a", "n", "d">>, "face_symmetry">>,
       <<<<"f", "i", "n", "g", "e", "r">>, "face_symmetry">>,
       <<<<"b", "l", "u", "r">>, "low_quality_flag">>,
       <<<<"l", "i", "g", "h", "t", "i", "n", "g">>, "color_anomaly">>,
       <<<<"c", "o", "l", "o", "r">>, "color_anomaly">>,
       <<<<"e", "d", "g", "e">>, "edge_artifacts">>,
       <<<<"t", "e", "x", "t", "u", "r", "e">>, "texture_inconsistency">>,
       <<<<"a", "u", "d", "i", "o">>, "audio_sync">>
    >>

\* _note_adjustments: 0.15 for every metric a keyword of the note names
NoteAdjustments(notes) ==
    IF notes = NoneText \/ notes = <<>> THEN <<>>
    ELSE LET lowered == Lower(notes)
             hit == {keyword_map[i][2] : i \in
                        {j \in 1..Len(keyword_map) : Contains(keyword_map[j][1], lowered)}}
         IN  [m \in hit |-> 15]

\* _extract_metric_contributions: metric -> contribution, in hundredths
ExtractMetricContributions(f) ==
    LET always == Metrics \ {"watermark", "face_analysis", "low_quality_flag"}
        keys   == always
                  \cup (IF f.wm_detected THEN {"watermark"} ELSE {})
                  \cup (IF f.face_detected THEN {"face_analysis"} ELSE {})
                  \cup (IF f.q_status = "low" THEN {"low_quality_flag"} ELSE {})
    IN  [m \in keys |->
            CASE m = "watermark" -> Get(f.wm_confidence, 50)
              [] m = "face_analysis" -> Min(100, 20 * Get(f.face_num_tracks, 1))
              [] m = "forensics_flicker" -> Get(f.flicker_score, 50)
              [] m = "forensics_prnu" -> 100 - Get(f.prnu_score, 50)
              [] m = "forensics_codec" -> Get(f.codec_score, 50)
              [] m = "audio_sync" -> 100 - Get(f.sync_score, 50)
              [] m = "edge_artifacts" -> Get(f.edge_artifact_score, 50)
              [] m = "texture_inconsistency" -> Get(f.texture_inconsistency, 50)
              [] m = "color_anomaly" -> Get(f.color_anomaly_score, 50)
              [] m = "freq_artifacts" -> Get(f.freq_artifact_score, 50)
              [] m = "mouth_exaggeration" -> Get(f.mouth_exaggeration_score, 50)
              [] m = "mouth_static" -> Get(f.mouth_static_score, 50)
              [] m = "eye_blink" -> Get(f.eye_blink_anomaly, 50)
              [] m = "face_symmetry" -> Get(f.face_symmetry_drift, 50)
              [] m = "low_quality_flag" -> 60
              [] m = "scene_logic" -> Get(f.incoherence_score, 50)]

\* The contributions of one feedback event: the features' plus the note's
FeedbackContributions(features, notes) ==
    LET metrics      == ExtractMetricContributions(features)
        note_metrics == NoteAdjustments(notes)
    IN  [m \in DOMAIN metrics \cup DOMAIN note_metrics |->
            (IF m \in DOMAIN metrics THEN metrics[m] ELSE 0)
            + (IF m \in DOMAIN note_metrics THEN note_metrics[m] ELSE 0)]

\* A mutant: the contribution added as it is, without min(1.0, max(0.0, .)).
UpsertMetricStats_NoClamp(stats, contributions, correct) ==
    [m \in DOMAIN stats \cup DOMAIN contributions |->
        LET weight == IF m \in DOMAIN contributions THEN contributions[m] ELSE 0
            old    == IF m \in DOMAIN stats THEN stats[m] ELSE Row(0, 0)
        IN  Row(old.correct_count + correct * weight,
                old.incorrect_count + (1 - correct) * weight)]

\* A mutant: the weight added to both counters of the metric.
UpsertMetricStats_BothCounters(stats, contributions, correct) ==
    [m \in DOMAIN stats \cup DOMAIN contributions |->
        LET weight == IF m \in DOMAIN contributions
                      THEN Clip(contributions[m], 0, 100) ELSE 0
            old    == IF m \in DOMAIN stats THEN stats[m] ELSE Row(0, 0)
        IN  Row(old.correct_count + weight, old.incorrect_count + weight)]

\* The INSERT ... ON CONFLICT DO UPDATE statements of one feedback event
UpsertMetricStats(stats, contributions, correct) ==
    [m \in DOMAIN stats \cup DOMAIN contributions |->
        LET weight == IF m \in DOMAIN contributions
                      THEN Clip(contributions[m], 0, 100) ELSE 0
            old    == IF m \in DOMAIN stats THEN stats[m] ELSE Row(0, 0)
        IN  Row(old.correct_count + correct * weight,
                old.incorrect_count + (1 - correct) * weight)]

\* `if notes: notes = notes.strip(); if len(notes) > 500: notes = notes[:500]`
CleanNotes(notes) ==
    IF notes = NoneText \/ notes = <<>> THEN notes
    ELSE LET stripped == Strip(notes)
         IN  IF Len(stripped) > NOTES_MAX_LEN
             THEN SubSeq(stripped, 1, NOTES_MAX_LEN) ELSE stripped

\* A mutant: the feedback_received test left out.
AlreadyProcessed_Never(r) == FALSE

\* `if row["feedback_received"]: return True`
AlreadyProcessed(r) == r.feedback_received # 0

\* A mutant: the endpoint answers success whatever store_feedback returned.
HttpStatus_AlwaysOk(stored) == 200

\* submit_feedback: 404 when store_feedback returned False, else 200
HttpStatus(stored) == IF stored = "False" THEN 404 ELSE 200

\* The order in which _extract_metric_contributions inserts its keys
MetricOrder ==
    <<"watermark", "face_analysis", "forensics_flicker", "forensics_prnu",
      "forensics_codec", "audio_sync", "edge_artifacts", "texture_inconsistency",
      "color_anomaly", "freq_artifacts", "mouth_exaggeration", "mouth_static",
      "eye_blink", "face_symmetry", "low_quality_flag", "scene_logic">>

\* `for metric, contribution in metrics.items()`: the features' keys in
\* insertion order, then the keys only the note added.
UpsertOrder(features, notes) ==
    LET c          == FeedbackContributions(features, notes)
        inFeatures == DOMAIN ExtractMetricContributions(features)
        first      == SelectSeq(MetricOrder, LAMBDA m : m \in inFeatures)
        later      == SelectSeq(MetricOrder, LAMBDA m : m \in DOMAIN c \ inFeatures)
        order      == first \o later
    IN  [i \in 1..Len(order) |-> <<order[i], c[order[i]]>>]

\* One INSERT ... ON CONFLICT DO UPDATE statement
UpsertOne(stats, metric, contribution, correct) ==
    LET weight == Clip(contribution, 0, 100)
        old    == IF metric \in DOMAIN stats THEN stats[metric] ELSE Row(0, 0)
    IN  [m \in DOMAIN stats \cup {metric} |->
            IF m = metric
            THEN Row(old.correct_count + correct * weight,
                     old.incorrect_count + (1 - correct) * weight)
            ELSE stats[m]]

\* No connection holds the write lock
NoTx == [owner |-> "none"]

\* A mutant: one connection shared by all calls, so that a read sees the
\* writes of a transaction in flight.
VisibleStats_SharedConnection(committed, pending) ==
    IF pending = NoTx THEN committed ELSE pending.stats

\* _get_conn opens a connection per call, and a connection reads only what
\* other connections have committed.
VisibleStats(committed, pending) == committed

\* No earlier analysis to compare with
NoPrev == [prob |-> Absent, override |-> FALSE]

NotCalled == <<"not called">>

NoArgs == [detection_id |-> "", user_label |-> <<>>, notes |-> NoneText]

NoRow == [verdict |-> "none", features |-> NeutralBundle, feedback_received |-> 0]

StoreIdle ==
    /\ detections = <<>>
    /\ feedback = <<>>
    /\ pc = [c \in Callers |-> "idle"]
    /\ args = [c \in Callers |-> NoArgs]
    /\ row = [c \in Callers |-> NoRow]
    /\ ret = [c \in Callers |-> "none"]
    /\ path = [c \in Callers |-> "none"]
    /\ http = [c \in Callers |-> 0]
    /\ ncalls = 0
    /\ nstores = 0
    /\ tx = NoTx

\* No get_job call has returned yet
NotPolled == [status |-> "not polled"]

\* No job has been started
JobIdle ==
    /\ jobs = <<>>
    /\ thread = <<>>
    /\ polled = NotPolled

FusionIdle ==
    /\ bundle = NeutralBundle
    /\ edits = 0
    /\ prob_ai = Absent
    /\ verdict = "none"
    /\ fusion_verdict = "none"
    /\ prev = NoPrev
    /\ raised = "none"
    /\ error = "none"
    /\ reasons = NotCalled

\* The database as a process finds it: no detection of this run yet, and
\* the counters earlier feedback left.
Init ==
    /\ StoreIdle
    /\ JobIdle
    /\ FusionIdle
    /\ metric_stats \in StoreStatsProfiles
    /\ metric_weights = GetMetricWeights(metric_stats)

\* store_detection: INSERT OR REPLACE writes a whole new row, so the
\* column feedback_received takes its default 0.
StoreDetection(id, v, f) ==
    /\ nstores < MaxStores
    /\ tx = NoTx
    /\ nstores' = nstores + 1
    /\ detections' = [d \in DOMAIN detections \cup {id} |->
                        IF d = id
                        THEN [verdict |-> v, features |-> f, feedback_received |-> 0]
                        ELSE detections[d]]
    /\ UNCHANGED <<fusionVars, metric_stats, feedback, pc, args, row, ret, path, http,
                   ncalls, tx, jobVars>>

\* POST /feedback reaches submit_feedback, which rejects a missing id or
\* label with 400 and else calls store_feedback.
SubmitFeedback(c, id, label, notes) ==
    /\ pc[c] = "idle"
    /\ ncalls < MaxCalls
    /\ ncalls' = ncalls + 1
    /\ ret' = [ret EXCEPT ![c] = "none"]
    /\ path' = [path EXCEPT ![c] = "none"]
    /\ row' = [row EXCEPT ![c] = NoRow]
    /\ IF id = "" \/ label = <<>>
       THEN /\ http' = [http EXCEPT ![c] = 400]
            /\ args' = [args EXCEPT ![c] = NoArgs]
            /\ pc' = pc
       ELSE /\ http' = [http EXCEPT ![c] = 0]
            /\ args' = [args EXCEPT ![c] = [detection_id |-> id, user_label |-> label,
                                            notes |-> CleanNotes(notes)]]
            /\ pc' = [pc EXCEPT ![c] = "select"]
    /\ UNCHANGED <<fusionVars, metric_stats, detections, feedback, nstores, tx, jobVars>>

\* store_feedback, the SELECT.  sqlite3 opens no transaction for a SELECT,
\* so the read is a step of its own: an unknown id returns False, a row
\* whose feedback_received is set returns True, both without writing.
SfSelect(c) ==
    /\ pc[c] = "select"
    /\ LET id == args[c].detection_id
       IN  IF id \notin DOMAIN detections
           THEN /\ ret' = [ret EXCEPT ![c] = "False"]
                /\ path' = [path EXCEPT ![c] = "not_found"]
                /\ http' = [http EXCEPT ![c] = HttpStatus("False")]
                /\ pc' = [pc EXCEPT ![c] = "idle"]
                /\ args' = [args EXCEPT ![c] = NoArgs]
                /\ row' = row
           ELSE IF AlreadyProcessed(detections[id])
           THEN /\ ret' = [ret EXCEPT ![c] = "True"]
                /\ path' = [path EXCEPT ![c] = "already_processed"]
                /\ http' = [http EXCEPT ![c] = HttpStatus("True")]
                /\ pc' = [pc EXCEPT ![c] = "idle"]
                /\ args' = [args EXCEPT ![c] = NoArgs]
                /\ row' = row
           ELSE /\ row' = [row EXCEPT ![c] = detections[id]]
                /\ pc' = [pc EXCEPT ![c] = "write"]
                /\ UNCHANGED <<ret, path, http, args>>
    /\ UNCHANGED <<fusionVars, metric_stats, detections, feedback, ncalls, nstores, tx, jobVars>>

\* store_feedback, from the INSERT to the commit.  The first write takes
\* the database's write lock and the commit releases it; no other
\* connection sees or makes a change in between, so the writes are one step.
\* They use the verdict and features of the row the SELECT returned.
SfWrite(c) ==
    /\ pc[c] = "write"
    /\ tx = NoTx
    /\ LET id == args[c].detection_id
           correct == IF Lower(args[c].user_label) = Lower(Chars(row[c].verdict))
                      THEN 1 ELSE 0
       IN  /\ feedback' = Append(feedback, args[c])
           /\ detections' = [d \in DOMAIN detections |->
                               IF d = id
                               THEN [detections[d] EXCEPT !.feedback_received = 1]
                               ELSE detections[d]]
           /\ metric_stats' =
                 UpsertMetricStats(metric_stats,
                                   FeedbackContributions(row[c].features, args[c].notes),
                                   correct)
    /\ ret' = [ret EXCEPT ![c] = "True"]
    /\ path' = [path EXCEPT ![c] = "applied"]
    /\ http' = [http EXCEPT ![c] = HttpStatus("True")]
    /\ pc' = [pc EXCEPT ![c] = "idle"]
    /\ args' = [args EXCEPT ![c] = NoArgs]
    /\ row' = [row EXCEPT ![c] = NoRow]
    /\ UNCHANGED <<fusionVars, ncalls, nstores, tx, jobVars>>

\* analyze_media constructs a DeepfakeFusion, whose __init__ reads the weights
\* with get_metric_weights: one SELECT on a connection of its own.  A
\* transaction in flight notes after how many of its upserts the read ran.
NewFusion ==
    /\ metric_weights' = GetMetricWeights(VisibleStats(metric_stats, tx))
    /\ metric_weights' # metric_weights
    /\ tx' = IF tx = NoTx THEN tx ELSE [tx EXCEPT !.read_at = tx.steps]
    /\ UNCHANGED <<bundle, edits, prob_ai, verdict, fusion_verdict, prev, raised,
                   error, reasons, metric_stats, detections, feedback, pc, args, row,
                   ret, path, http, ncalls, nstores, jobVars>>

\* A userLabel that is a JSON number: truthy, so submit_feedback passes it on
L_number == <<"5">>

\* user_label.lower() exists for a str only
IsStr(label) == label # L_number

\* A watermark-override analysis whose codec score is None: predict returns
\* before it reads the score, and store_detection stores it as null.
NullCodecWmBundle == [GeneratorWmBundle EXCEPT !.codec_score = Null]

\* _extract_metric_contributions calls float() on what .get returns, and
\* float(None) raises TypeError.
ExtractMetricContributionsRaises(f) ==
    \/ (f.wm_detected /\ f.wm_confidence = Null)
    \/ \E k \in {"flicker_score", "prnu_score", "codec_score", "sync_score",
                 "edge_artifact_score", "texture_inconsistency", "color_anomaly_score",
                 "freq_artifact_score", "mouth_exaggeration_score", "mouth_static_score",
                 "eye_blink_anomaly", "face_symmetry_drift", "incoherence_score"} :
          f[k] = Null

\* store_feedback raises between its UPDATE and its first upsert
StoreFeedbackRaises(user_label, features) ==
    ~IsStr(user_label) \/ ExtractMetricContributionsRaises(features)

\* A mutant: a connection in autocommit mode, whose statements stay when
\* the connection is closed.
AfterClose_Autocommit(committed, pending) == pending

\* _get_conn: an exception skips conn.commit(), and conn.close() discards
\* the open transaction.
AfterClose(committed, pending) == committed

\* store_feedback statement by statement.  The INSERT takes the write lock
\* (another writer waits for it) and opens the transaction.
SfBegin(c) ==
    /\ pc[c] = "write"
    /\ tx = NoTx
    /\ tx' = [owner      |-> c,
              stats      |-> metric_stats,
              correct    |-> IF Lower(args[c].user_label) = Lower(Chars(row[c].verdict))
                             THEN 1 ELSE 0,
              raises     |-> StoreFeedbackRaises(args[c].user_label, row[c].features),
              todo       |-> IF StoreFeedbackRaises(args[c].user_label, row[c].features)
                             THEN <<>>
                             ELSE UpsertOrder(row[c].features, args[c].notes),
              steps      |-> 0,
              read_at    |-> Absent]
    /\ pc' = [pc EXCEPT ![c] = "upsert"]
    /\ UNCHANGED <<fusionVars, metric_stats, detections, feedback, args, row, ret, path,
                   http, ncalls, nstores, jobVars>>

\* The loop over metrics.items(): one upsert, seen by this connection only
SfUpsert(c) ==
    /\ pc[c] = "upsert"
    /\ tx.owner = c
    /\ tx.todo # <<>>
    /\ tx' = [tx EXCEPT !.stats = UpsertOne(tx.stats, Head(tx.todo)[1], Head(tx.todo)[2],
                                            tx.correct),
                        !.todo = Tail(tx.todo),
                        !.steps = tx.steps + 1]
    /\ UNCHANGED <<fusionVars, metric_stats, detections, feedback, pc, args, row, ret,
                   path, http, ncalls, nstores, jobVars>>

\* Leaving `with _get_conn()`: conn.commit() publishes the feedback row, the
\* flag and every counter at once and releases the lock.
SfCommit(c) ==
    /\ pc[c] = "upsert"
    /\ tx.owner = c
    /\ tx.todo = <<>>
    /\ ~tx.raises
    /\ feedback' = Append(feedback, args[c])
    /\ detections' = [d \in DOMAIN detections |->
                        IF d = args[c].detection_id
                        THEN [detections[d] EXCEPT !.feedback_received = 1]
                        ELSE detections[d]]
    /\ metric_stats' = tx.stats
    /\ tx' = NoTx
    /\ ret' = [ret EXCEPT ![c] = "True"]
    /\ path' = [path EXCEPT ![c] = "applied"]
    /\ http' = [http EXCEPT ![c] = HttpStatus("True")]
    /\ pc' = [pc EXCEPT ![c] = "idle"]
    /\ args' = [args EXCEPT ![c] = NoArgs]
    /\ row' = [row EXCEPT ![c] = NoRow]
    /\ UNCHANGED <<fusionVars, ncalls, nstores, jobVars>>

\* One request thread writes while analyses are constructed and read the
\* weights.
NextTx ==
    \/ \E s \in StoreCalls : StoreDetection(s[1], s[2], s[3])
    \/ \E r \in Requests : SubmitFeedback("t1", r[1], r[2], r[3])
    \/ SfSelect("t1")
    \/ SfBegin("t1")
    \/ SfUpsert("t1")
    \/ SfCommit("t1")
    \/ NewFusion

SpecTx == Init /\ [][NextTx]_vars

\* The exception leaves `with _get_conn()`: no commit, the connection is
\* closed, and submit_feedback answers 500.
SfRollback(c) ==
    /\ pc[c] = "upsert"
    /\ tx.owner = c
    /\ tx.raises
    /\ LET committed == [detections |-> detections, feedback |-> feedback,
                         metric_stats |-> metric_stats]
           pending   == [detections |->
                             [d \in DOMAIN detections |->
                                IF d = args[c].detection_id
                                THEN [detections[d] EXCEPT !.feedback_received = 1]
                                ELSE detections[d]],
                         feedback |-> Append(feedback, args[c]),
                         metric_stats |-> tx.stats]
           db        == AfterClose(committed, pending)
       IN  /\ detections' = db.detections
           /\ feedback' = db.feedback
           /\ metric_stats' = db.metric_stats
    /\ tx' = NoTx
    /\ ret' = [ret EXCEPT ![c] = "raised"]
    /\ path' = [path EXCEPT ![c] = "raised"]
    /\ http' = [http EXCEPT ![c] = 500]
    /\ pc' = [pc EXCEPT ![c] = "idle"]
    /\ args' = [args EXCEPT ![c] = NoArgs]
    /\ row' = [row EXCEPT ![c] = NoRow]
    /\ UNCHANGED <<fusionVars, ncalls, nstores, jobVars>>

\* Detections whose features decode and one whose codec score is null
FailStoreCalls ==
    {<<"d1", "AI", NullCodecWmBundle>>,
     <<"d1", "AI", GeneratorWmBundle>>,
     <<"d2", "AI", LowQualityArtifactBundle>>}

\* Requests with a label that is a string and one that is a number
FailRequests ==
    {<<"d1", L_AI, NoneText>>,
     <<"d2", L_number, NoneText>>,
     <<"d2", L_real, N_lip_blur>>}

\* Two request threads call store_feedback, which may raise after its
\* first writes.
NextFail ==
    \/ \E s \in FailStoreCalls : StoreDetection(s[1], s[2], s[3])
    \/ \E c \in Callers, r \in FailRequests : SubmitFeedback(c, r[1], r[2], r[3])
    \/ \E c \in Callers : SfSelect(c)
    \/ \E c \in Callers : SfBegin(c)
    \/ \E c \in Callers : SfUpsert(c)
    \/ \E c \in Callers : SfCommit(c)
    \/ \E c \in Callers : SfRollback(c)

SpecFail == Init /\ [][NextFail]_vars

(***************************************************************************)
(* analysis_manager: background jobs, their progress and get_job           *)
(***************************************************************************)
JobIds == {"j1", "j2"}

\* An id start_job never returned
UnknownJob == "j9"

\* One progress_callback call: progress, stage, message, completed
Emit(p, s, m, c) == [progress |-> p, stage |-> s, message |-> m, completed |-> c]

\* The calls _run_job and analyze_media make up to the face analysis
EmitsHead ==
    <<Emit(2, "quality", "Preparing media", FALSE),
      Emit(3, "quality", "Preparing media", FALSE),
      Emit(8, "quality", "Assessing quality", FALSE),
      Emit(18, "quality", "Quality assessment complete", TRUE),
      Emit(22, "watermark", "Scanning for watermarks", FALSE),
      Emit(34, "watermark", "Watermark scan complete", TRUE),
      Emit(36, "forensics", "Running forensic checks", FALSE),
      Emit(50, "forensics", "Forensic analysis complete", TRUE),
      Emit(60, "face_analysis", "Face analysis complete", TRUE),
      Emit(62, "artifact", "Analyzing visual artifacts", FALSE)>>

\* The calls of the artifact and face dynamics stage, for an image and
\* for a video
EmitsArtifact(is_image) ==
    IF is_image
    THEN <<Emit(68, "face_dynamics", "Facial dynamics (image baseline)", TRUE),
           Emit(70, "artifact", "Artifact analysis complete", TRUE)>>
    ELSE <<Emit(70, "artifact", "Artifact analysis complete", TRUE),
           Emit(72, "face_dynamics", "Analyzing facial dynamics", FALSE),
           Emit(78, "face_dynamics", "Facial dynamics complete", TRUE)>>

\* The calls from the temporal checks to the fusion
EmitsTail ==
    <<Emit(82, "temporal", "Temporal consistency checks", FALSE),
      Emit(86, "temporal", "Temporal checks complete", TRUE),
      Emit(88, "scene_logic", "Evaluating scene logic", FALSE),
      Emit(91, "scene_logic", "Scene logic complete", TRUE),
      Emit(92, "audio_visual", "Analyzing audio-visual sync", FALSE),
      Emit(94, "audio_visual", "A/V analysis complete", TRUE),
      Emit(96, "fusion", "Fusing signals", FALSE),
      Emit(100, "fusion", "Fusion complete", TRUE)>>

\* Every progress_callback call of one job, in program order
Emits(is_image) == EmitsHead \o EmitsArtifact(is_image) \o EmitsTail

\* Calls a holder of the callback may make after the job thread's last write
StrayEmits ==
    {Emit(96, "fusion", "Fusing signals", FALSE),
     Emit(100, "fusion", "Fusion complete", TRUE),
     Emit(150, "None", "Late", FALSE)}

\* The dictionary start_job stores (None is the string "None")
QueuedJob ==
    [status |-> "queued", progress |-> 0, stage |-> "None", message |-> "Queued",
     completedStages |-> <<>>, result |-> "None", error |-> "None"]

\* A mutant: the callback writes whatever the job's status is.
ProgressCallback_NoTerminalGuard(job, e) ==
    [job EXCEPT !.status = "running",
                !.progress = Max(job.progress, Min(e.progress, 100)),
                !.message = e.message]

\* progress_callback under the lock: nothing for a job that is completed
\* or error, else status running, progress never lower, the stage entered
\* or marked completed.
ProgressCallback(job, e) ==
    IF job.status \in {"completed", "error"}
    THEN job
    ELSE [job EXCEPT
            !.status = "running",
            !.progress = Max(job.progress, Min(e.progress, 100)),
            !.message = e.message,
            !.completedStages =
                IF e.completed /\ e.stage # "None"
                     /\ ~(\E i \in 1..Len(job.completedStages) :
                             job.completedStages[i] = e.stage)
                THEN Append(job.completedStages, e.stage)
                ELSE job.completedStages,
            !.stage = IF e.completed /\ e.stage # "None" THEN "None"
                      ELSE IF e.stage # "None" THEN e.stage
                      ELSE job.stage]

\* The dictionary get_job builds: the result only for a completed job
JobView(job) ==
    [status |-> job.status, progress |-> job.progress, stage |-> job.stage,
     message |-> job.message, completedStages |-> job.completedStages,
     result |-> IF job.status = "completed" THEN job.result ELSE "None",
     error |-> job.error]

\* start_job: the job is stored as queued, then its thread is started
StartJob(j, is_image) ==
    /\ j \notin DOMAIN jobs
    /\ jobs' = [k \in DOMAIN jobs \cup {j} |-> IF k = j THEN QueuedJob ELSE jobs[k]]
    /\ thread' = [k \in DOMAIN thread \cup {j} |->
                    IF k = j
                    THEN [pos |-> 0, is_image |-> is_image, finished |-> FALSE,
                          late |-> FALSE]
                    ELSE thread[k]]
    /\ UNCHANGED <<fusionVars, metric_stats, storeVars, polled>>

\* The job thread makes its next progress_callback call
JobCallback(j) ==
    /\ j \in DOMAIN jobs
    /\ ~thread[j].finished
    /\ thread[j].pos < Len(Emits(thread[j].is_image))
    /\ jobs' = [jobs EXCEPT ![j] =
                   ProgressCallback(jobs[j], Emits(thread[j].is_image)[thread[j].pos + 1])]
    /\ thread' = [thread EXCEPT ![j].pos = thread[j].pos + 1]
    /\ UNCHANGED <<fusionVars, metric_stats, storeVars, polled>>

\* analyze_media and build_ui_response returned: the final write
JobComplete(j) ==
    /\ j \in DOMAIN jobs
    /\ ~thread[j].finished
    /\ thread[j].pos = Len(Emits(thread[j].is_image))
    /\ jobs' = [jobs EXCEPT ![j] =
                   [jobs[j] EXCEPT !.status = "completed", !.progress = 100,
                                   !.stage = "None", !.message = "Analysis complete",
                                   !.result = "ui_payload"]]
    /\ thread' = [thread EXCEPT ![j].finished = TRUE]
    /\ UNCHANGED <<fusionVars, metric_stats, storeVars, polled>>

\* analyze_media or build_ui_response raised, anywhere after the first
\* callback of the try block: the except branch's write
JobFail(j) ==
    /\ j \in DOMAIN jobs
    /\ ~thread[j].finished
    /\ thread[j].pos >= 1
    /\ jobs' = [jobs EXCEPT ![j] =
                   [jobs[j] EXCEPT !.status = "error", !.error = "exc",
                                   !.stage = "None",
                                   !.message = "Error during analysis"]]
    /\ thread' = [thread EXCEPT ![j].finished = TRUE]
    /\ UNCHANGED <<fusionVars, metric_stats, storeVars, polled>>

\* A progress_callback call that arrives after the job thread's last write
StrayCallback(j, e) ==
    /\ j \in DOMAIN jobs
    /\ thread[j].finished
    /\ jobs' = [jobs EXCEPT ![j] = ProgressCallback(jobs[j], e)]
    /\ thread' = [thread EXCEPT ![j].late = TRUE]
    /\ UNCHANGED <<fusionVars, metric_stats, storeVars, polled>>

\* get_job(job_id): None for an unknown id, else the view of the job
GetJob(j) ==
    /\ polled' = IF j \in DOMAIN jobs THEN JobView(jobs[j]) ELSE [status |-> "None"]
    /\ UNCHANGED <<fusionVars, metric_stats, storeVars, jobs, thread>>

InitJob ==
    /\ StoreIdle
    /\ JobIdle
    /\ FusionIdle
    /\ metric_stats = <<>>
    /\ metric_weights = <<>>

NextJob ==
    \/ \E j \in JobIds, is_image \in BOOLEAN : StartJob(j, is_image)
    \/ \E j \in JobIds : JobCallback(j)
    \/ \E j \in JobIds : JobComplete(j)
    \/ \E j \in JobIds : JobFail(j)
    \/ \E j \in JobIds, e \in StrayEmits : StrayCallback(j, e)
    \/ \E j \in JobIds \cup {UnknownJob} : GetJob(j)

SpecJob == InitJob /\ [][NextJob]_vars

Next ==
    \/ \E s \in StoreCalls : StoreDetection(s[1], s[2], s[3])
    \/ \E c \in Callers, r \in Requests : SubmitFeedback(c, r[1], r[2], r[3])
    \/ \E c \in Callers : SfSelect(c)
    \/ \E c \in Callers : SfWrite(c)
    \/ NewFusion

Spec == Init /\ [][Next]_vars

(***************************************************************************)
(* analyze_media: the extractors fill the bundle, then predict and decide  *)
(***************************************************************************)
\* DeepfakeFusion.__init__ reads the weights once
InitFusion ==
    /\ bundle \in BaseBundles
    /\ edits = 0
    /\ prob_ai = Absent
    /\ verdict = "none"
    /\ fusion_verdict = "none"
    /\ prev = NoPrev
    /\ raised = "none"
    /\ error = "none"
    /\ reasons = NotCalled
    /\ metric_stats \in StatsProfiles
    /\ metric_weights = GetMetricWeights(metric_stats)
    /\ StoreIdle
    /\ JobIdle

\* A feature extractor writes one key of analysis_results
Extract(f, v) ==
    /\ prob_ai = Absent
    /\ edits < MaxEdits
    /\ bundle[f] # v
    /\ bundle' = [bundle EXCEPT ![f] = v]
    /\ edits' = edits + 1
    /\ UNCHANGED <<prob_ai, verdict, fusion_verdict, metric_weights, prev, raised,
                   error, reasons, metric_stats, storeVars, jobVars>>

\* assess_quality: one measurement differs, the status follows from all four
ExtractQuality(f, v) ==
    /\ prob_ai = Absent
    /\ edits < MaxEdits
    /\ bundle[f] # v
    /\ LET q == [bundle EXCEPT ![f] = v]
       IN  bundle' = [q EXCEPT !.q_status =
                        AssessQualityStatus(q.q_blur, q.q_brisque, q.q_bitrate, q.q_shake)]
    /\ edits' = edits + 1
    /\ UNCHANGED <<prob_ai, verdict, fusion_verdict, metric_weights, prev, raised,
                   error, reasons, metric_stats, storeVars, jobVars>>

\* prob_ai = fusion.predict(analysis_results).  A call that raises returns
\* nothing; the refresh of the weights comes after the watermark checks.
RunPredict ==
    /\ prob_ai = Absent
    /\ error = "none"
    /\ LET refreshed == RefreshedWeights(metric_weights, VisibleStats(metric_stats, tx))
       IN  IF PredictRaises(bundle)
           THEN /\ error' = "TypeError"
                /\ prob_ai' = prob_ai
                /\ bundle' = BundleAtRaise(bundle, metric_stats)
                /\ metric_weights' = IF WatermarkChecksRaise(bundle)
                                     THEN metric_weights ELSE refreshed
           ELSE LET r == PredictWith(bundle, refreshed)
                IN  /\ prob_ai' = r.prob
                    /\ bundle' = r.bundle
                    /\ metric_weights' =
                          IF r.bundle.hard_ai_evidence = "watermark_override"
                          THEN metric_weights ELSE refreshed
                    /\ error' = error
    /\ UNCHANGED <<edits, verdict, fusion_verdict, prev, raised, reasons,
                   metric_stats, storeVars, jobVars>>

\* verdict = decide(prob_ai, quality)
RunDecide ==
    /\ prob_ai # Absent
    /\ verdict = "none"
    /\ verdict' = Decide(prob_ai, bundle)
    /\ UNCHANGED <<bundle, edits, prob_ai, fusion_verdict, metric_weights, prev, raised,
                   error, reasons, metric_stats, storeVars, jobVars>>

\* fusion.get_verdict(prob_ai, quality['status'])
RunGetVerdict ==
    /\ prob_ai # Absent
    /\ fusion_verdict = "none"
    /\ fusion_verdict' = GetVerdict(prob_ai, bundle.q_status)
    /\ UNCHANGED <<bundle, edits, prob_ai, verdict, metric_weights, prev, raised,
                   error, reasons, metric_stats, storeVars, jobVars>>

NextFusion ==
    \/ \E f \in Fields : \E v \in FieldValues(f) : Extract(f, v)
    \/ \E f \in QualityFields : \E v \in QualityValues(f) : ExtractQuality(f, v)
    \/ RunPredict
    \/ RunDecide

SpecFusion == InitFusion /\ [][NextFusion]_vars

(***************************************************************************)
(* Analyses in which an extractor reports None for a score                 *)
(***************************************************************************)
\* The scores and confidences an extractor may report as None
NullableFields ==
    RealFields \cup AIFields \cup TemporalFields \cup {"wm_confidence", "scene_confidence"}

\* A feature extractor writes None to one key of analysis_results
ExtractNone(f) ==
    /\ prob_ai = Absent
    /\ error = "none"
    /\ edits < MaxEdits
    /\ bundle[f] # Null
    /\ bundle' = [bundle EXCEPT ![f] = Null]
    /\ edits' = edits + 1
    /\ UNCHANGED <<prob_ai, verdict, fusion_verdict, metric_weights, prev, raised,
                   error, reasons, metric_stats, storeVars, jobVars>>

\* reasons = generate_reasons(analysis_results, prob_ai)
RunGenerateReasons ==
    /\ prob_ai # Absent
    /\ error = "none"
    /\ reasons = NotCalled
    /\ IF GenerateReasonsRaises(bundle)
       THEN /\ error' = "TypeError"
            /\ reasons' = reasons
       ELSE /\ reasons' = GenerateReasons(bundle)
            /\ error' = error
    /\ UNCHANGED <<bundle, edits, prob_ai, verdict, fusion_verdict, metric_weights,
                   prev, raised, metric_stats, storeVars, jobVars>>

NextNone ==
    \/ \E f \in NullableFields : ExtractNone(f)
    \/ RunPredict
    \/ RunGenerateReasons

SpecNone == InitFusion /\ [][NextNone]_vars

(***************************************************************************)
(* analyze_media: the extractors, predict, then generate_reasons           *)
(***************************************************************************)
NextReasons ==
    \/ \E f \in Fields : \E v \in FieldValues(f) : Extract(f, v)
    \/ \E f \in QualityFields : \E v \in QualityValues(f) : ExtractQuality(f, v)
    \/ RunPredict
    \/ RunGenerateReasons

SpecReasons == InitFusion /\ [][NextReasons]_vars

(***************************************************************************)
(* Two analyses that differ in one raw score                               *)
(***************************************************************************)
InitMono ==
    /\ bundle \in MonoBundles
    /\ edits = 0
    /\ prob_ai = Absent
    /\ verdict = "none"
    /\ fusion_verdict = "none"
    /\ prev = NoPrev
    /\ raised = "none"
    /\ error = "none"
    /\ reasons = NotCalled
    /\ metric_stats \in StatsProfiles
    /\ metric_weights = GetMetricWeights(metric_stats)
    /\ StoreIdle
    /\ JobIdle

\* A second analysis of media whose extractors report the same values but
\* for score f, which is higher (v): a fresh bundle, and predict on it.
Raise(f, v) ==
    /\ prob_ai # Absent
    /\ raised = "none"
    /\ bundle[f] # Absent
    /\ v > bundle[f]
    /\ LET fresh == [bundle EXCEPT ![f] = v, !.hard_ai_evidence = "none",
                                   !.real_evidence_override = FALSE]
           r == Predict(fresh, metric_stats)
       IN  /\ bundle' = r.bundle
           /\ prob_ai' = r.prob
    /\ prev' = [prob |-> prob_ai, override |-> bundle.real_evidence_override]
    /\ raised' = f
    /\ UNCHANGED <<edits, verdict, fusion_verdict, metric_weights, error, reasons,
                   metric_stats, storeVars, jobVars>>

NextMono ==
    \/ RunPredict
    \/ \E f \in AIFields \cup RealFields : \E v \in FieldValues(f) : Raise(f, v)

SpecMono == InitMono /\ [][NextMono]_vars

(***************************************************************************)
(* The verdict functions on every probability                              *)
(***************************************************************************)
InitVerdict ==
    /\ bundle \in QualityBundles
    /\ edits = 0
    /\ prob_ai \in 0..1000
    /\ verdict = "none"
    /\ fusion_verdict = "none"
    /\ prev = NoPrev
    /\ raised = "none"
    /\ error = "none"
    /\ reasons = NotCalled
    /\ metric_stats = <<>>
    /\ metric_weights = <<>>
    /\ StoreIdle
    /\ JobIdle

NextVerdict == RunDecide \/ RunGetVerdict

SpecVerdict == InitVerdict /\ [][NextVerdict]_vars

(***************************************************************************)
(* The feedback loop: analyses while feedback arrives                      *)
(***************************************************************************)
\* An analysis whose predict may run before or after feedback arrives
LoopBundles == {LowQualityArtifactBundle, HighAIBundle}

\* Features whose extractors reported scores far outside [0, 1]
OutOfRangeBundle == [HighAIBundle EXCEPT !.prnu_score = 300, !.flicker_score = 300]

\* The detections stored while the loop runs
LoopStoreCalls == StoreCalls \cup {<<"d2", "AI", OutOfRangeBundle>>}

InitLoop ==
    /\ StoreIdle
    /\ JobIdle
    /\ bundle \in LoopBundles
    /\ edits = 0
    /\ prob_ai = Absent
    /\ verdict = "none"
    /\ fusion_verdict = "none"
    /\ prev = NoPrev
    /\ raised = "none"
    /\ error = "none"
    /\ reasons = NotCalled
    /\ metric_stats \in StoreStatsProfiles
    /\ metric_weights = GetMetricWeights(metric_stats)

\* The four calls of the feedback loop: store_detection, store_feedback,
\* get_metric_weights (by the constructor and by predict) and predict.
NextLoop ==
    \/ \E s \in LoopStoreCalls : StoreDetection(s[1], s[2], s[3])
    \/ \E r \in Requests : SubmitFeedback("t1", r[1], r[2], r[3])
    \/ SfSelect("t1")
    \/ SfWrite("t1")
    \/ NewFusion
    \/ RunPredict

SpecLoop == InitLoop /\ [][NextLoop]_vars

(***************************************************************************)
(* Properties                                                              *)
(***************************************************************************)
\* The watermark the documentation calls a verified generator watermark:
\* detected, persistent, in a corner, confidence >= 0.75, and a text (the
\* `watermark` entry, else `text`) that holds a strict generator keyword.
DocumentedGeneratorWm(b) ==
    /\ b.wm_detected /\ b.wm_persistent /\ b.wm_corner
    /\ Get(b.wm_confidence, 0) >= 75
    /\ MatchesGeneratorKeyword(CheckText(b))

\* Hard AI evidence as predict establishes it: a watermark that passes the
\* generator checks and the final safeguard, or a strong scene-logic break.
HardAiEvidence(b) ==
    \/ (HasGeneratorWm(b) /\ FinalCheck(b))
    \/ HasStrongLogicBreak(b)

\* The strong independent branches as the independence rule is documented,
\* counted from the raw scores (an absent score reaches no threshold).
DocumentedStrongBranches(b) ==
    Cardinality({k \in 1..5 :
        \/ k = 1 /\ b.wm_persistent /\ b.wm_corner /\ b.wm_confidence >= 85
        \/ k = 2 /\ b.scene_flag /\ b.scene_confidence >= 80
        \/ k = 3 /\ (b.freq_artifact_score >= 80 \/ b.edge_artifact_score >= 80)
        \/ k = 4 /\ (\/ b.mouth_exaggeration_score >= 85
                     \/ b.mouth_static_score >= 85
                     \/ b.eye_blink_anomaly >= 85
                     \/ b.face_symmetry_drift >= 85)
        \/ k = 5 /\ (b.oddity_score >= 80 \/ b.rppg_score >= 80)})

\* The probability the aggregation and the logit adjustment reach for the
\* analysed bundle, before the caps (the annotations do not enter it).
BeforeCaps == ApplyHardEvidenceBoosts(FuseRuleBased(bundle, metric_weights), bundle).prob

C2_RepeatedFeedbackIsNoOp ==
    [][\A c \in Callers :
          (/\ pc[c] = "select"
           /\ pc'[c] # "select"
           /\ args[c].detection_id \in DOMAIN detections
           /\ detections[args[c].detection_id].feedback_received # 0)
          => (/\ pc'[c] = "idle"
              /\ ret'[c] = "True"
              /\ metric_stats' = metric_stats
              /\ feedback' = feedback
              /\ detections' = detections)]_vars

\* C2 witness: a call returned True on the already-processed path after the
\* one feedback row was written.
C2_Witness ==
    \E c \in Callers :
        /\ path[c] = "already_processed"
        /\ ret[c] = "True"
        /\ Len(feedback) = 1

\* C3: while a detection is stored only once, no detection id has more than
\* one feedback row (each row comes with one increment of the counters),
\* however the store_feedback calls for it interleave.
C3_AtMostOneFeedbackRowPerDetection ==
    nstores <= 1 =>
        \A id \in DetIds :
            Cardinality({i \in 1..Len(feedback) : feedback[i].detection_id = id}) <= 1

\* C4: a store_feedback call that finds no row for the id returns False,
\* is answered 404 by the endpoint, and leaves all three tables as they were.
C4_UnknownIdIsNotFound ==
    [][\A c \in Callers :
          (/\ pc[c] = "select"
           /\ pc'[c] # "select"
           /\ args[c].detection_id \notin DOMAIN detections)
          => (/\ pc'[c] = "idle"
              /\ ret'[c] = "False"
              /\ http'[c] = 404
              /\ metric_stats' = metric_stats
              /\ feedback' = feedback
              /\ detections' = detections)]_vars

\* C4 witness: a call returned on the not-found path while another
\* detection was stored.
C4_Witness ==
    \E c \in Callers :
        /\ path[c] = "not_found"
        /\ ret[c] = "False"
        /\ detections # <<>>

\* C5: with no hard AI evidence and fewer than two strong branches, the
\* final probability is at most 0.90.
C5_IndependenceCap ==
    (/\ prob_ai # Absent
     /\ ~HardAiEvidence(bundle)
     /\ DocumentedStrongBranches(bundle) < 2)
    => prob_ai <= 900

\* C5 witness: the cap binds: the logit adjustment reached more than 0.90
\* on good-quality media and predict returned 0.90.
C5_Witness ==
    /\ prob_ai = 900
    /\ ~HardAiEvidence(bundle)
    /\ DocumentedStrongBranches(bundle) < 2
    /\ bundle.q_status # "low"
    /\ BeforeCaps > 900

\* C6: every probability predict returns lies in [0, 1].
C6_ProbabilityInUnitInterval ==
    prob_ai # Absent => (0 <= prob_ai /\ prob_ai <= 1000)

\* C6 witness: predict returned the upper end of the interval on the
\* aggregation path.
C6_Witness ==
    /\ prob_ai = 1000
    /\ bundle.hard_ai_evidence = "none"

\* C7: every weight get_metric_weights returns lies in [0.3, 2.2]; a row
\* whose counters sum to 0 gets exactly 1.0; and the aggregator uses 1.0
\* for a metric without a row.  Stated of the weights a call would return
\* in the current state and of those the engine last loaded.
C7_WeightsClampedAndNeutral ==
    LET w == GetMetricWeights(metric_stats)
    IN  /\ \A m \in DOMAIN w :
              /\ 30 <= w[m] /\ w[m] <= 220
              /\ (metric_stats[m].correct_count + metric_stats[m].incorrect_count = 0
                    => w[m] = 100)
        /\ \A m \in DOMAIN metric_weights :
              30 <= metric_weights[m] /\ metric_weights[m] <= 220
        /\ \A m \in Metrics \ DOMAIN w : Weighted(w, m, 1) = 100

\* C7 witness: after feedback, one row's unclamped weight is below 0.3,
\* another's is above 2.2, and a third has both counters at 0.
C7_Witness ==
    /\ Len(feedback) >= 1
    /\ \E m \in DOMAIN metric_stats :
          /\ metric_stats[m].incorrect_count > 1050
          /\ RawMetricWeight(metric_stats[m].correct_count,
                             metric_stats[m].incorrect_count) < 300
    /\ \E m \in DOMAIN metric_stats :
          RawMetricWeight(metric_stats[m].correct_count,
                          metric_stats[m].incorrect_count) > 2200
    /\ \E m \in DOMAIN metric_stats :
          metric_stats[m].correct_count + metric_stats[m].incorrect_count = 0
    /\ Metrics \ DOMAIN metric_stats # {}

C9_LowQualityCap ==
    (/\ prob_ai # Absent
     /\ bundle.q_status = "low"
     /\ ~HardAiEvidence(bundle)
     /\ DocumentedStrongBranches(bundle) <= 1)
    => prob_ai <= 750

\* C9 witness: the cap binds: on low-quality media with one strong branch
\* the logit adjustment reached more than 0.75 and predict returned 0.75.
C9_Witness ==
    /\ prob_ai = 750
    /\ bundle.q_status = "low"
    /\ ~HardAiEvidence(bundle)
    /\ DocumentedStrongBranches(bundle) = 1
    /\ BeforeCaps > 750

\* The verdict mapping as documented
DocumentedVerdict(p, low) ==
    IF p >= 800 THEN "AI"
    ELSE IF p <= 200 THEN "REAL"
    ELSE IF 400 <= p /\ p <= 600 THEN (IF low THEN "ABSTAIN" ELSE "UNSURE")
    ELSE IF p > 500 THEN "AI" ELSE "REAL"

\* C10: decide and get_verdict both return the documented mapping: AI from
\* 0.8, REAL up to 0.2, inside [0.4, 0.6] ABSTAIN on low quality and UNSURE
\* otherwise, elsewhere AI above 0.5 and REAL below.
C10_BothFunctionsComputeTheMapping ==
    /\ verdict # "none" =>
          verdict = DocumentedVerdict(prob_ai,
                        QLow(bundle.q_blur, bundle.q_brisque, bundle.q_bitrate))
    /\ fusion_verdict # "none" =>
          fusion_verdict = DocumentedVerdict(prob_ai, bundle.q_status = "low")

\* Every evidence score neutral (0.5) or missing, every flag false, and
\* quality not low by either test.
NoEvidence(b) ==
    /\ \A f \in BoolFields : ~b[f]
    /\ \A f \in RealFields \cup AIFields \cup TemporalFields : b[f] \in {Absent, 50}
    /\ b.q_status # "low"
    /\ ~QLow(b.q_blur, b.q_brisque, b.q_bitrate)

\* C11: a bundle whose scores are all missing gives what the all-neutral
\* bundle gives (and so does any mix of missing and neutral scores):
\* predict returns 0.5 and decide returns UNSURE.
C11_NoEvidenceIsNeutral ==
    (prob_ai # Absent /\ NoEvidence(bundle)) =>
        /\ prob_ai = 500
        /\ (verdict # "none" => verdict = "UNSURE")

\* C11 witness: the analysis of the bundle with every score missing ended
\* at 0.5 and UNSURE under counters that earlier feedback left.
C11_Witness ==
    /\ \A f \in RealFields \cup AIFields \cup TemporalFields : bundle[f] = Absent
    /\ NoEvidence(bundle)
    /\ metric_stats # <<>>
    /\ prob_ai = 500
    /\ verdict = "UNSURE"

\* The five calming conditions as documented, on the raw scores (a missing
\* score meets none of them)
DocumentedCalmingConditions(b) ==
    {k \in 1..5 :
        \/ k = 1 /\ b.prnu_score >= 70
        \/ k = 2 /\ b.sync_score >= 80
        \/ k = 3 /\ b.rppg_score # Absent /\ b.rppg_score <= 25
        \/ k = 4 /\ b.oddity_score # Absent /\ b.oddity_score <= 20
        \/ k = 5 /\ b.incoherence_score # Absent /\ b.incoherence_score <= 35
                 /\ ~b.scene_flag}

\* What the conditions subtract from the log-odds: 0.6, 0.3, 0.3, 0.3, 0.15
DocumentedCalming(b) ==
    LET c == DocumentedCalmingConditions(b)
    IN  (IF 1 \in c THEN 600 ELSE 0) + (IF 2 \in c THEN 300 ELSE 0)
        + (IF 3 \in c THEN 300 ELSE 0) + (IF 4 \in c THEN 300 ELSE 0)
        + (IF 5 \in c THEN 150 ELSE 0)

\* The bundle as it was handed to predict
AsGiven(b) == [b EXCEPT !.hard_ai_evidence = "none", !.real_evidence_override = FALSE]

\* C12: for every analysed bundle, real_evidence_count is the number of
\* the five calming conditions that hold and the log-odds lose each
\* holding condition's amount once; Scenario C's bundle has count 5 and
\* the verdict REAL.
C12_RealEvidenceCount ==
    prob_ai # Absent =>
        /\ Cardinality(RealEvidenceDetails(bundle))
             = Cardinality(DocumentedCalmingConditions(bundle))
        /\ SumCalming(RealEvidenceDetails(bundle)) = DocumentedCalming(bundle)
        /\ AsGiven(bundle) = RealEvidenceBundle =>
              /\ Cardinality(RealEvidenceDetails(bundle)) = 5
              /\ prob_ai = ToProb(ToLogit(FuseRuleBased(bundle, metric_weights)) - 1650)
              /\ (verdict # "none" => verdict = "REAL")

\* C12 witness: Scenario C analysed and decided REAL.
C12_Witness ==
    /\ AsGiven(bundle) = RealEvidenceBundle
    /\ Cardinality(RealEvidenceDetails(bundle)) = 5
    /\ prob_ai # Absent /\ prob_ai <= REAL_THRESHOLD
    /\ verdict = "REAL"

\* C13 (as stated): predict and generate_reasons never raise, whichever
\* scores of the bundle are absent or None: every call returns.
C13_NoneNeverRaises == error = "none"

\* A bundle with a None score on which predict raised, and one on which
\* predict returned and generate_reasons raised.
C13_PredictRaised == error = "TypeError" /\ prob_ai = Absent

C13_ReasonsRaised == error = "TypeError" /\ prob_ai # Absent /\ reasons = NotCalled

\* The counters as the feedback event in flight leaves them once complete
AfterEvent == UpsertMetricStats(metric_stats, FeedbackContributions(row[tx.owner].features, args[tx.owner].notes), tx.correct)

\* C14: a get_metric_weights call returns the weights of the counters as
\* they were before the feedback event in flight or as they are after all
\* of it, never of a state with only some of its increments; and the
\* counters other connections can read change only by a whole event.
C14_ReadsSeeWholeEvents ==
    [][/\ metric_weights' # metric_weights =>
            \/ metric_weights' = GetMetricWeights(metric_stats)
            \/ tx # NoTx /\ metric_weights' = GetMetricWeights(AfterEvent)
       /\ metric_stats' # metric_stats =>
            tx # NoTx /\ metric_stats' = AfterEvent]_vars

\* A read that ran while a second event had applied some but not all of
\* its increments, and returned the weights of the first event's counters.
C14_Witness ==
    /\ tx # NoTx
    /\ tx.read_at > 0 /\ tx.read_at = tx.steps /\ tx.todo # <<>>
    /\ tx.stats # metric_stats
    /\ Len(feedback) = 1
    /\ metric_weights = GetMetricWeights(metric_stats)
    /\ metric_weights # GetMetricWeights(tx.stats)

\* C15: a predict call on the rule-based path aggregates with the weights
\* of the counters as they are when it starts (every feedback event that
\* has returned is in them), and leaves those weights in the object;
\* what the constructor read does not enter the result.
C15_PredictUsesCurrentCounters ==
    [][(prob_ai = Absent /\ prob_ai' # Absent
        /\ bundle'.hard_ai_evidence # "watermark_override") =>
            /\ prob_ai' = PredictWith(bundle, GetMetricWeights(metric_stats)).prob
            /\ metric_weights' = GetMetricWeights(metric_stats)]_vars

\* A predict that ran after feedback was applied: its result is that of
\* the current counters and of no table the process could have started from.
C15_Witness ==
    /\ feedback # <<>>
    /\ prob_ai # Absent
    /\ prob_ai = Predict(AsGiven(bundle), metric_stats).prob
    /\ \A s0 \in StoreStatsProfiles : prob_ai # Predict(AsGiven(bundle), s0).prob

\* C16: in every step of store_detection, store_feedback,
\* get_metric_weights and predict calls, no metric_stats row disappears, no
\* counter decreases, every counter is >= 0, and the table changes only in
\* the step in which a store_feedback call applies its event.
C16_CountersOnlyGrowByFeedback ==
    [][/\ DOMAIN metric_stats \subseteq DOMAIN metric_stats'
       /\ \A m \in DOMAIN metric_stats :
            /\ metric_stats'[m].correct_count >= metric_stats[m].correct_count
            /\ metric_stats'[m].incorrect_count >= metric_stats[m].incorrect_count
       /\ \A m \in DOMAIN metric_stats' :
            metric_stats'[m].correct_count >= 0 /\ metric_stats'[m].incorrect_count >= 0
       /\ metric_stats' # metric_stats =>
            \E c \in Callers : pc[c] = "write" /\ path'[c] = "applied"]_vars

\* Feedback applied to a detection whose PRNU and flicker scores were 3.0:
\* the contributions 1 - 3.0 and 3.0 entered as 0 and 1; and a predict ran.
C16_Witness ==
    /\ "d2" \in DOMAIN detections
    /\ detections["d2"].features = OutOfRangeBundle
    /\ detections["d2"].feedback_received = 1
    /\ "forensics_prnu" \in DOMAIN metric_stats
    /\ metric_stats["forensics_prnu"] = Row(0, 0)
    /\ metric_stats["forensics_flicker"] = Row(0, 100)
    /\ prob_ai # Absent

\* C17 (as stated): a predict call that returns leaves the bundle it was
\* given with exactly the keys and values it had before the call.
C17_PredictLeavesBundleUnchanged ==
    [][(prob_ai = Absent /\ prob_ai' # Absent) => bundle' = bundle]_vars

\* What the call adds: the key _hard_ai_evidence, or _real_evidence_override.
C17_BundleAnnotated ==
    /\ prob_ai # Absent
    /\ (bundle.hard_ai_evidence # "none" \/ bundle.real_evidence_override)

C19_StrongLogicBreakForces095 ==
    (/\ prob_ai # Absent
     /\ bundle.scene_flag
     /\ bundle.incoherence_score >= 80
     /\ bundle.scene_confidence >= 80) =>
        /\ prob_ai >= 950
        /\ ~bundle.real_evidence_override

\* A strong break with four real-evidence cues on low-quality media, whose
\* probability after the boosts was below 0.95; predict returned 0.95.
C19_Witness ==
    /\ bundle.scene_flag /\ bundle.incoherence_score >= 80 /\ bundle.scene_confidence >= 80
    /\ Cardinality(RealEvidenceDetails(bundle)) = 4
    /\ bundle.q_status = "low"
    /\ StrongBranches(bundle) <= 1
    /\ prob_ai # Absent
    /\ ToProb(BoostedLogit(FuseRuleBased(bundle, metric_weights), bundle)) < 950
    /\ prob_ai = 950

\* The probability after calming and boosts, before any enforcement
PostBoost == ToProb(BoostedLogit(FuseRuleBased(bundle, metric_weights), bundle))

\* C20: the real-evidence override fires exactly when there is no hard AI
\* evidence, at least 4 real-evidence cues hold and the post-boost
\* probability is > 0.75, and predict then returns 0.65; so with no hard AI
\* evidence and at least 4 cues the returned probability is <= 0.75.
C20_RealEvidenceOverride ==
    prob_ai # Absent =>
        LET cues == Cardinality(DocumentedCalmingConditions(bundle))
        IN  /\ bundle.real_evidence_override <=>
                  (~HardAiEvidence(bundle) /\ cues >= 4 /\ PostBoost > 750)
            /\ bundle.real_evidence_override => prob_ai = 650
            /\ (~HardAiEvidence(bundle) /\ cues >= 4) => prob_ai <= 750

\* The override fired: four cues, no hard evidence, a post-boost
\* probability above 0.75, and 0.65 returned.
C20_Witness ==
    /\ prob_ai = 650
    /\ bundle.real_evidence_override
    /\ bundle.hard_ai_evidence = "none"
    /\ Cardinality(DocumentedCalmingConditions(bundle)) >= 4
    /\ PostBoost > 750

\* Four cues and no hard evidence with a post-boost probability that stays
\* at or below 0.75: no override, and the probability is returned as it is.
C20_NoOverrideBelowThreshold ==
    /\ prob_ai # Absent
    /\ ~bundle.real_evidence_override
    /\ bundle.hard_ai_evidence = "none"
    /\ Cardinality(DocumentedCalmingConditions(bundle)) >= 4
    /\ PostBoost > 500 /\ PostBoost <= 750

\* C21 (as stated): whenever the quality status is 'low' and the final
\* probability lies in [UNSURE_LOW, UNSURE_HIGH], analyze_media's verdict is
\* ABSTAIN and not UNSURE.
C21_LowStatusInBandAbstains ==
    (/\ verdict # "none"
     /\ bundle.q_status = "low"
     /\ ALLOW_ABSTAIN_ON_LOW_QUALITY
     /\ UNSURE_LOW <= prob_ai /\ prob_ai <= UNSURE_HIGH) => verdict = "ABSTAIN"

\* Media the quality gate calls low that decide does not: UNSURE is returned
C21_GateLowDecideNot ==
    /\ verdict = "UNSURE"
    /\ bundle.q_status = "low"
    /\ bundle.q_status = AssessQualityStatus(bundle.q_blur, bundle.q_brisque,
                                             bundle.q_bitrate, bundle.q_shake)
    /\ ~QLow(bundle.q_blur, bundle.q_brisque, bundle.q_bitrate)

\* scale(flow_oddity) as documented, in tenths
DocumentedScale(oddity) ==
    IF oddity <= 15 THEN 2 ELSE IF oddity <= 25 THEN 4 ELSE IF oddity <= 35 THEN 7 ELSE 10

\* C22 (as stated): in the aggregation of the analysed bundle the flicker
\* and codec weights and the four visual-artifact weights are their base
\* weights (times the adaptive weight) times the same scale(flow_oddity).
C22_ForensicsScaledLikeArtifacts ==
    (prob_ai # Absent /\ bundle.hard_ai_evidence # "watermark_override") =>
        LET items == FusionItems(bundle, metric_weights)
            n     == Len(items)
            s     == DocumentedScale(Get(bundle.oddity_score, 50))
            W(m, base) == Weighted(metric_weights, m, base)
        IN  /\ items[n - 11][2] = W("forensics_flicker", 18) * s
            /\ items[n - 10][2] = W("forensics_codec", 15) * s
            /\ items[n - 8][2] = W("edge_artifacts", 16) * s
            /\ items[n - 7][2] = W("texture_inconsistency", 14) * s
            /\ items[n - 6][2] = W("color_anomaly", 10) * s
            /\ items[n - 5][2] = W("freq_artifacts", 14) * s

\* An analysis with flow oddity in (0.30, 0.35]
C22_OddityBetween030And035 ==
    /\ prob_ai # Absent
    /\ bundle.oddity_score > 30 /\ bundle.oddity_score <= 35

\* The analysed bundle with its watermark section as when nothing is detected
WithoutWatermark(b) ==
    [b EXCEPT !.wm_detected = FALSE, !.wm_confidence = 0, !.wm_persistent = FALSE,
              !.wm_corner = FALSE, !.wm_generator_hint = FALSE,
              !.wm_watermark = NoneText, !.wm_text = NoneText]

\* A detected watermark of high confidence that is no generator watermark,
\* neither as documented nor by predict's checks
GenericHighConfidenceWm(b) ==
    /\ b.wm_detected
    /\ b.wm_confidence >= 85
    /\ ~DocumentedGeneratorWm(b)
    /\ ~HasGeneratorWm(b)

\* C23 (as stated): for an analysed bundle with a detected high-confidence
\* watermark that is not a verified generator watermark, the log-odds the
\* adjuster reaches exceed those it reaches for the same bundle without the
\* watermark by WATERMARK_LOGIT_BONUS.
C23_GenericWatermarkBonusAdded ==
    (prob_ai # Absent /\ GenericHighConfidenceWm(bundle)) =>
        LET p == FuseRuleBased(bundle, metric_weights)
        IN  BoostedLogit(p, bundle)
              = BoostedLogit(p, WithoutWatermark(bundle)) + WATERMARK_LOGIT_BONUS

\* Such a bundle analysed: the adjuster's log-odds are the same with and
\* without the watermark.
C23_NoBonus ==
    /\ prob_ai # Absent
    /\ GenericHighConfidenceWm(bundle)
    /\ LET p == FuseRuleBased(bundle, metric_weights)
       IN  BoostedLogit(p, bundle) = BoostedLogit(p, WithoutWatermark(bundle))

\* C24: generate_reasons returns at most 5 reasons, in non-increasing
\* weight order, and when the hard-evidence enforcement or the
\* real-evidence override fired for the bundle, that override's reason is
\* the first entry.
C24_TopFiveOverrideFirst ==
    reasons # NotCalled =>
        /\ Len(reasons) <= 5
        /\ \A i \in 1..Len(reasons) : \A j \in i..Len(reasons) :
              reasons[i][2] >= reasons[j][2]
        /\ bundle.hard_ai_evidence # "none" =>
              Len(reasons) >= 1 /\ reasons[1][1] = "hard_ai_evidence"
        /\ bundle.real_evidence_override =>
              Len(reasons) >= 1 /\ reasons[1][1] = "real_evidence_override"

\* The real-evidence override fired on a bundle with more than five
\* qualifying metric reasons: five are returned, the override's first.
C24_Witness ==
    /\ reasons # NotCalled
    /\ bundle.real_evidence_override
    /\ Len(ReasonCandidates(bundle)) > 6
    /\ Len(reasons) = 5
    /\ reasons[1][1] = "real_evidence_override"
    /\ reasons[2][2] > reasons[5][2]

\* C25 (as stated): over any sequence of store_detection and store_feedback
\* calls, no detection id gets more than one feedback row (each row comes
\* with one increment of the counters), a detection stored again under
\* the same id included.
C25_FeedbackOncePerId ==
    \A id \in DetIds :
        Cardinality({i \in 1..Len(feedback) : feedback[i].detection_id = id}) <= 1

\* Two feedback rows for d1 written by calls that ran one after the other
C25_AppliedTwiceAfterRestore ==
    /\ nstores = 2
    /\ Len(feedback) = 2
    /\ feedback[1].detection_id = "d1" /\ feedback[2].detection_id = "d1"
    /\ detections["d1"].feedback_received = 1

\* The counters of metric m in table t, 0 and 0 when it has no row
CountersOf(t, m) == IF m \in DOMAIN t THEN t[m] ELSE Row(0, 0)

\* C26: a store_feedback call that is applied adds, for every contributing
\* metric, the contribution clamped to [0, 1] to correct_count when the
\* label equals the stored verdict ignoring case and to incorrect_count
\* otherwise, and leaves the other counter and every other metric as they
\* were; on a stored verdict UNSURE or ABSTAIN a label AI or REAL therefore
\* raises no correct_count.
C26_OneCounterPerMetric ==
    [][\A c \in Callers :
          (pc[c] = "write" /\ path'[c] = "applied") =>
              LET contributions == FeedbackContributions(row[c].features, args[c].notes)
                  same == Lower(args[c].user_label) = Lower(Chars(row[c].verdict))
              IN  /\ \A m \in DOMAIN contributions :
                        LET w   == Max(0, Min(100, contributions[m]))
                            old == CountersOf(metric_stats, m)
                            new == CountersOf(metric_stats', m)
                        IN  IF same
                            THEN /\ new.correct_count = old.correct_count + w
                                 /\ new.incorrect_count = old.incorrect_count
                            ELSE /\ new.incorrect_count = old.incorrect_count + w
                                 /\ new.correct_count = old.correct_count
                  /\ \A m \in Metrics \ DOMAIN contributions :
                        CountersOf(metric_stats', m) = CountersOf(metric_stats, m)
                  /\ (row[c].verdict \in {"UNSURE", "ABSTAIN"}
                        /\ Upper(args[c].user_label) \in {Chars("AI"), Chars("REAL")}) =>
                        \A m \in Metrics :
                            CountersOf(metric_stats', m).correct_count
                              = CountersOf(metric_stats, m).correct_count]_vars

\* Feedback 'real' with a note was applied to a detection stored as UNSURE:
\* only incorrect counts grew, the note's metric among them.
C26_Witness ==
    /\ "d1" \in DOMAIN detections
    /\ detections["d1"].verdict = "UNSURE"
    /\ detections["d1"].feedback_received = 1
    /\ Len(feedback) = 1
    /\ feedback[1].user_label = L_real
    /\ feedback[1].notes = CleanNotes(N_lip_blur)
    /\ \E s0 \in StoreStatsProfiles :
          /\ CountersOf(metric_stats, "mouth_static").incorrect_count
               > CountersOf(s0, "mouth_static").incorrect_count
          /\ \A m \in Metrics :
               CountersOf(metric_stats, m).correct_count = CountersOf(s0, m).correct_count

\* C27: when store_feedback raises after its first writes, the database
\* is left as it was before the call: no feedback row is kept, the
\* detection's feedback_received stays as it was (0 when the row is still
\* the one the call selected) and no counter changes, so the id can still be
\* given feedback.
C27_FailureRollsBack ==
    [][\A c \in Callers :
          (pc[c] = "upsert" /\ path'[c] = "raised") =>
              /\ feedback' = feedback
              /\ metric_stats' = metric_stats
              /\ detections' = detections
              /\ (detections[args[c].detection_id] = row[c]) =>
                     ~AlreadyProcessed(detections'[args[c].detection_id])
              /\ http'[c] = 500]_vars

\* A call for d2 raised on a numeric label, and the retry by the other
\* thread was applied: one feedback row, the flag set, counters changed.
C27_Witness ==
    /\ path["t1"] = "raised"
    /\ path["t2"] = "applied"
    /\ nstores = 1
    /\ "d2" \in DOMAIN detections
    /\ detections["d2"].feedback_received = 1
    /\ Len(feedback) = 1
    /\ feedback[1].detection_id = "d2"
    /\ feedback[1].user_label = L_real
    /\ metric_stats \notin StoreStatsProfiles

\* A call for d1 raised while extracting contributions from a null score
C27_RaisedOnNullScore ==
    /\ path["t1"] = "raised"
    /\ nstores = 1
    /\ "d1" \in DOMAIN detections
    /\ detections["d1"].features = NullCodecWmBundle
    /\ detections["d1"].feedback_received = 0
    /\ feedback = <<>>

\* C28: with the default thresholds and quality that is not low, decide
\* returns AI for every p above 0.60, REAL for every p below 0.40 and UNSURE
\* for every p in [0.40, 0.60]; whatever the quality, the verdict is the one
\* the unsure band and the 0.5 fallback give without the AI and REAL
\* thresholds.
C28_VerdictFromUnsureBandOnly ==
    verdict # "none" =>
        /\ (~QLow(bundle.q_blur, bundle.q_brisque, bundle.q_bitrate)
              \/ bundle.q_status # "low") =>
               verdict = (IF prob_ai > 600 THEN "AI"
                          ELSE IF prob_ai < 400 THEN "REAL" ELSE "UNSURE")
        /\ verdict # "ABSTAIN" =>
               verdict = (IF 400 <= prob_ai /\ prob_ai <= 600 THEN "UNSURE"
                          ELSE IF prob_ai > 500 THEN "AI" ELSE "REAL")

\* A probability between the unsure band and the AI threshold decided AI
\* on quality that is not low.
C28_Witness ==
    /\ verdict = "AI"
    /\ prob_ai > UNSURE_HIGH
    /\ prob_ai < AI_THRESHOLD
    /\ bundle.q_status # "low"
    /\ ~QLow(bundle.q_blur, bundle.q_brisque, bundle.q_bitrate)

C30_JobTerminalAndResultOnlyWhenCompleted ==
    [][/\ \A j \in DOMAIN jobs :
            /\ jobs'[j].status # jobs[j].status =>
                  <<jobs[j].status, jobs'[j].status>> \in
                      {<<"queued", "running">>, <<"running", "completed">>,
                       <<"running", "error">>}
            /\ jobs[j].status \in {"completed", "error"} =>
                  /\ jobs'[j].status = jobs[j].status
                  /\ jobs'[j].result = jobs[j].result
                  /\ jobs'[j].progress = jobs[j].progress
       /\ (polled' \notin {NotPolled, [status |-> "None"]} /\ polled'.result # "None") =>
              polled'.status = "completed"]_vars

\* A callback arrived after the job had completed and was ignored, and
\* get_job returned the result with the status completed.
C30_Witness ==
    /\ "j1" \in DOMAIN jobs
    /\ thread["j1"].late
    /\ jobs["j1"].status = "completed"
    /\ jobs["j1"].progress = 100
    /\ jobs["j1"].result = "ui_payload"
    /\ polled = JobView(jobs["j1"])
    /\ polled.result = "ui_payload"

====
